---- MODULE Spec2Model ----
(***************************************************************************)
(* A model of the FastKit scaffolding engine: the dependency manifest      *)
(* manager (dependency_manager.py), the cleanup engine (cleanup_utils.py), *)
(* the db / cache / auth sub-generators, add_service_to_project and the    *)
(* create-project command with scaffold_project_structure.                 *)
(*                                                                         *)
(* Text files are sequences of lines.  A line of pyproject.toml is a       *)
(* record that keeps what the code's string tests read: which text the     *)
(* stripped line is (kind), the quoted specifier it holds (dep) and        *)
(* whether it ends with a comma after the closing quote (comma).  A        *)
(* specifier is a sequence of tokens, the comparison characters < > = !    *)
(* and the blank being tokens of their own, so that the package name is    *)
(* computed by scanning for the first comparison character, as re.split    *)
(* does.                                                                   *)
(***************************************************************************)
EXTENDS Integers, Sequences, FiniteSets, TLC

VARIABLES
    pyproject,   \* pyproject.toml: [exists, lines]
    dirs,        \* the directories of the project that exist
    files,       \* the rendered files: pairs of a path and the text rendered there
    config_py,   \* app/core/config.py: [exists, lines]
    main_py,     \* app/main.py: [exists, lines]
    origin,      \* the project as scaffold_project_structure left it
    pc,          \* where the run of the command is
    calls,       \* the dependency manager's sync calls made by the last operation
    last,        \* the last operation that ran and its arguments
    steps        \* number of operations run so far

vars == <<pyproject, dirs, files, config_py, main_py, origin, pc, calls, last, steps>>

\* Bound on the number of operations in one behaviour.
MaxOps == 3

-----------------------------------------------------------------------------
(* Specifiers                                                              *)

OpChars == {"<", ">", "=", "!"}

\* name>=version
Ge(name, ver) == name \o <<">", "=", ver>>

RECURSIVE FirstOp(_, _)
\* index of the first comparison character of dep at or after i, Len(dep)+1 if none
FirstOp(dep, i) ==
    IF i > Len(dep) THEN Len(dep) + 1
    ELSE IF dep[i] \in OpChars THEN i
    ELSE FirstOp(dep, i + 1)

RECURSIVE LStrip(_)
LStrip(s) == IF s # <<>> /\ Head(s) = " " THEN LStrip(Tail(s)) ELSE s

RECURSIVE RStrip(_)
RStrip(s) ==
    IF s # <<>> /\ s[Len(s)] = " " THEN RStrip(SubSeq(s, 1, Len(s) - 1)) ELSE s

Strip(s) == RStrip(LStrip(s))

\* re.split(r'[><=!]', dep)[0].strip()
PackageName(dep) == Strip(SubSeq(dep, 1, FirstOp(dep, 1) - 1))

-----------------------------------------------------------------------------
(* DependencyManager.DEPENDENCIES                                          *)

DEPENDENCIES ==
    [ db |->
        [ postgresql |-> <<Ge(<<"sqlalchemy">>, "2.0.0"), Ge(<<"psycopg2-binary">>, "2.9.0")>>,
          mysql      |-> <<Ge(<<"sqlalchemy">>, "2.0.0"), Ge(<<"pymysql">>, "1.0.0")>>,
          sqlite     |-> <<Ge(<<"sqlalchemy">>, "2.0.0")>>,
          mongodb    |-> <<Ge(<<"motor">>, "3.0.0")>>,
          mssql      |-> <<Ge(<<"sqlalchemy">>, "2.0.0"), Ge(<<"pyodbc">>, "4.0.0")>> ],
      cache |->
        [ redis     |-> <<Ge(<<"redis">>, "4.0.0")>>,
          memcached |-> <<Ge(<<"pymemcache">>, "4.0.0")>>,
          dynamodb  |-> <<Ge(<<"boto3">>, "1.26.0")>> ]
        @@ ("in-memory" :> <<Ge(<<"cachetools">>, "5.0.0")>>),
      auth |->
        [ jwt   |-> <<Ge(<<"python-jose", "[cryptography]">>, "3.3.0"),
                      Ge(<<"passlib", "[bcrypt]">>, "1.7.4")>>,
          oauth |-> <<Ge(<<"authlib">>, "1.2.0"), Ge(<<"httpx">>, "0.24.0")>> ],
      api |->
        [ rest      |-> <<Ge(<<"fastapi">>, "0.116"), Ge(<<"uvicorn", "[standard]">>, "0.30")>>,
          graphql   |-> <<Ge(<<"strawberry-graphql">>, "0.200.0")>>,
          websocket |-> <<Ge(<<"websockets">>, "11.0.0")>> ],
      testing |->
        [ pytest   |-> <<Ge(<<"pytest">>, "7.0.0"), Ge(<<"pytest", "-asyncio">>, "0.21.0")>>,
          coverage |-> <<Ge(<<"pytest", "-cov">>, "4.0.0")>>,
          factory  |-> <<Ge(<<"factory-boy">>, "3.2.0")>>,
          mock     |-> <<Ge(<<"pytest", "-mock">>, "3.10.0")>> ],
      validation |->
        [ pydantic    |-> <<Ge(<<"pydantic">>, "2.0.0"), Ge(<<"pydantic", "-settings">>, "2.0.0")>>,
          marshmallow |-> <<Ge(<<"marshmallow">>, "3.19.0")>> ],
      serialization |->
        [ json    |-> <<>>,
          yaml    |-> <<Ge(<<"PyYAML">>, "6.0")>>,
          xml     |-> <<Ge(<<"lxml">>, "4.9.0")>>,
          msgpack |-> <<Ge(<<"msgpack">>, "1.0.0")>> ],
      http |->
        [ requests |-> <<Ge(<<"requests">>, "2.28.0")>>,
          httpx    |-> <<Ge(<<"httpx">>, "0.24.0")>>,
          aiohttp  |-> <<Ge(<<"aiohttp">>, "3.8.0")>> ],
      tasks |->
        [ celery   |-> <<Ge(<<"celery">>, "5.2.0"), Ge(<<"redis">>, "4.0.0")>>,
          rq       |-> <<Ge(<<"rq">>, "1.13.0"), Ge(<<"redis">>, "4.0.0")>>,
          dramatiq |-> <<Ge(<<"dramatiq">>, "1.13.0"), Ge(<<"redis">>, "4.0.0")>> ],
      jobs |->
        [ celery      |-> <<Ge(<<"celery">>, "5.2.0"), Ge(<<"redis">>, "4.0.0")>>,
          rq          |-> <<Ge(<<"rq">>, "1.13.0"), Ge(<<"redis">>, "4.0.0")>>,
          apscheduler |-> <<Ge(<<"apscheduler">>, "3.10.0")>>,
          dramatiq    |-> <<Ge(<<"dramatiq">>, "1.13.0"), Ge(<<"redis">>, "4.0.0")>>,
          arq         |-> <<Ge(<<"arq">>, "0.25.0"), Ge(<<"redis">>, "4.0.0")>> ],
      monitoring |->
        [ prometheus |-> <<Ge(<<"prometheus-client">>, "0.16.0")>>,
          sentry     |-> <<Ge(<<"sentry-sdk">>, "1.15.0")>>,
          logging    |-> <<Ge(<<"structlog">>, "22.3.0")>> ],
      security |->
        [ cors       |-> <<Ge(<<"fastapi", "-cors">>, "0.0.6")>>,
          encryption |-> <<Ge(<<"cryptography">>, "40.0.0")>> ]
        @@ ("rate-limiting" :> <<Ge(<<"slowapi">>, "0.1.8")>>),
      files |->
        [ images |-> <<Ge(<<"Pillow">>, "9.5.0")>>,
          pdf    |-> <<Ge(<<"PyPDF2">>, "3.0.0")>>,
          excel  |-> <<Ge(<<"openpyxl">>, "3.1.0")>>,
          csv    |-> <<>> ],
      cloud |->
        [ aws   |-> <<Ge(<<"boto3">>, "1.26.0")>>,
          gcp   |-> <<Ge(<<"google-cloud-storage">>, "2.8.0")>>,
          azure |-> <<Ge(<<"azure-storage-blob">>, "12.14.0")>> ],
      messaging |->
        [ rabbitmq |-> <<Ge(<<"pika">>, "1.3.0")>>,
          kafka    |-> <<Ge(<<"kafka-python">>, "2.0.2")>> ]
        @@ ("redis-pubsub" :> <<Ge(<<"redis">>, "4.0.0")>>) ]

\* DEPENDENCIES[service_type].get(service_provider, []) when the type is known
get_dependencies_for_service(service_type, service_provider) ==
    IF service_type \in DOMAIN DEPENDENCIES
    THEN IF service_provider \in DOMAIN DEPENDENCIES[service_type]
         THEN DEPENDENCIES[service_type][service_provider]
         ELSE <<>>
    ELSE <<>>

-----------------------------------------------------------------------------
(* Lines of pyproject.toml                                                 *)
(*   kind "header" : the stripped line is  dependencies = [                *)
(*   kind "close"  : the stripped line is  ]                               *)
(*   kind "entry"  : the stripped line is  "<dep>"  followed by a comma    *)
(*                   when comma is TRUE                                    *)
(*   kind "inline" : the stripped line is  dependencies = [<items>]  , the  *)
(*                   whole array on one line; dep holds the tokens of     *)
(*                   <items>                                               *)
(*   kind "text"   : any other line; dep holds its tokens                  *)

HeaderLine == [kind |-> "header", dep |-> <<>>, comma |-> FALSE]
CloseLine == [kind |-> "close", dep |-> <<>>, comma |-> FALSE]
EntryLine(d, c) == [kind |-> "entry", dep |-> d, comma |-> c]
TextLine(t) == [kind |-> "text", dep |-> t, comma |-> FALSE]
InlineLine(t) == [kind |-> "inline", dep |-> t, comma |-> FALSE]

\* f'    "{dep}",'
FormatEntry(d) == EntryLine(d, TRUE)

\* line.strip() == 'dependencies = ['
IsHeader(line) == line.kind = "header"

\* line.strip() == ']'
IsClose(line) == line.kind = "close"

\* line.startswith('"') and line.endswith('",')
IsQuotedEntry(line) == line.kind = "entry" /\ line.comma

\* line[1:-2]
EntryDep(line) == line.dep

\* the file as the code sees it: exists() and read_text().split('\n')
File(ls) == [exists |-> TRUE, lines |-> ls]
NoFile == [exists |-> FALSE, lines |-> <<>>]

RECURSIVE ReadLoop(_, _, _, _)
\* the for loop of read_current_dependencies from line i on
ReadLoop(lines, i, in_dependencies, dependencies) ==
    IF i > Len(lines) THEN dependencies
    ELSE IF IsHeader(lines[i])
         THEN ReadLoop(lines, i + 1, TRUE, dependencies)
    ELSE IF in_dependencies /\ IsClose(lines[i])
         THEN dependencies
    ELSE IF in_dependencies /\ IsQuotedEntry(lines[i])
         THEN ReadLoop(lines, i + 1, in_dependencies,
                       dependencies \cup {EntryDep(lines[i])})
    ELSE ReadLoop(lines, i + 1, in_dependencies, dependencies)

read_current_dependencies(pp) ==
    IF ~pp.exists THEN {} ELSE ReadLoop(pp.lines, 1, FALSE, {})

\* f'    "{dep}",' for each dep of deps_to_add
FormatEntries(deps_to_add) ==
    [k \in 1..Len(deps_to_add) |-> FormatEntry(deps_to_add[k])]

RECURSIVE AddLoop(_, _, _, _, _)
\* the rewriting loop of add_dependencies from line i on
AddLoop(lines, i, in_dependencies, deps_to_add, new_lines) ==
    IF i > Len(lines) THEN new_lines
    ELSE IF IsHeader(lines[i])
         THEN AddLoop(lines, i + 1, TRUE, deps_to_add, Append(new_lines, lines[i]))
    ELSE IF in_dependencies /\ IsClose(lines[i])
         THEN AddLoop(lines, i + 1, FALSE, deps_to_add,
                      Append(new_lines \o FormatEntries(deps_to_add), lines[i]))
    ELSE AddLoop(lines, i + 1, in_dependencies, deps_to_add,
                 Append(new_lines, lines[i]))

\* the filter of add_dependencies: a candidate is kept unless some entry read
\* from the file has its package name
DepsToAdd(current_deps, new_dependencies) ==
    LET already_exists(dep) ==
            \E existing_dep \in current_deps :
                PackageName(existing_dep) = PackageName(dep)
    IN  SelectSeq(new_dependencies, LAMBDA dep : ~already_exists(dep))

\* the content of pyproject.toml after add_dependencies(new_dependencies)
add_dependencies(pp, new_dependencies) ==
    IF new_dependencies = <<>> \/ ~pp.exists THEN pp
    ELSE LET deps_to_add ==
                 DepsToAdd(read_current_dependencies(pp), new_dependencies)
         IN  IF deps_to_add = <<>> THEN pp
             ELSE File(AddLoop(pp.lines, 1, FALSE, deps_to_add, <<>>))

sync_service_dependencies(pp, service_type, service_provider) ==
    add_dependencies(pp, get_dependencies_for_service(service_type, service_provider))

RECURSIVE AllDependencies(_)
\* all_dependencies of sync_multiple_services; services is the dict's items in order
AllDependencies(services) ==
    IF services = <<>> THEN <<>>
    ELSE get_dependencies_for_service(Head(services)[1], Head(services)[2])
             \o AllDependencies(Tail(services))

sync_multiple_services(pp, services) ==
    add_dependencies(pp, AllDependencies(services))

RECURSIVE RemoveLoop(_, _, _, _, _)
\* the rewriting loop of remove_dependencies from line i on
RemoveLoop(lines, i, in_dependencies, packages_to_remove, new_lines) ==
    IF i > Len(lines) THEN new_lines
    ELSE IF IsHeader(lines[i])
         THEN RemoveLoop(lines, i + 1, TRUE, packages_to_remove,
                         Append(new_lines, lines[i]))
    ELSE IF in_dependencies /\ IsClose(lines[i])
         THEN RemoveLoop(lines, i + 1, FALSE, packages_to_remove,
                         Append(new_lines, lines[i]))
    ELSE IF in_dependencies /\ IsQuotedEntry(lines[i])
         THEN IF PackageName(EntryDep(lines[i])) \notin packages_to_remove
              THEN RemoveLoop(lines, i + 1, in_dependencies, packages_to_remove,
                              Append(new_lines, lines[i]))
              ELSE RemoveLoop(lines, i + 1, in_dependencies, packages_to_remove,
                              new_lines)
    ELSE RemoveLoop(lines, i + 1, in_dependencies, packages_to_remove,
                    Append(new_lines, lines[i]))

\* the content of pyproject.toml after remove_dependencies(dependencies_to_remove)
remove_dependencies(pp, dependencies_to_remove) ==
    IF dependencies_to_remove = <<>> \/ ~pp.exists THEN pp
    ELSE LET packages_to_remove ==
                 {PackageName(dependencies_to_remove[k]) :
                      k \in 1..Len(dependencies_to_remove)}
         IN  File(RemoveLoop(pp.lines, 1, FALSE, packages_to_remove, <<>>))

\* dependencies_to_remove of cleanup_dependencies_from_pyproject
dependencies_to_remove_for(service_type) ==
    IF service_type = "cache"
    THEN {"redis", "pymemcache", "boto3", "cachetools"}
    ELSE IF service_type = "db"
    THEN {"sqlalchemy", "psycopg2-binary", "pymysql", "cryptography", "motor", "pyodbc"}
    ELSE IF service_type = "auth"
    THEN {"python-jose", "passlib", "authlib", "httpx"}
    ELSE {}

\* tokens of text lines whose last character is ']'
BracketEndTokens == {"[project]", "[tool.fastkit]", "[tool.hatch.envs.default]"}

\* line_stripped.startswith('dependencies = [')
StartsWithHeader(line) == line.kind \in {"header", "inline"}

\* line_stripped == ']' or line_stripped.endswith(']')
EndsWithBracket(line) ==
    \/ line.kind = "close"
    \/ line.kind = "text" /\ line.dep # <<>> /\ line.dep[Len(line.dep)] \in BracketEndTokens

\* f'"{dep_to_remove}' in line: a double quote directly followed by the name.
\* Names are tokenised so that a listed name is a token of its own
\* ("redis-om" is <<"redis", "-om">>), which makes 'starts with' a test of one token.
ContainsQuoted(line, dep_to_remove) ==
    \/ line.kind = "entry" /\ line.dep # <<>> /\ Head(line.dep) = dep_to_remove
    \/ line.kind = "text" /\ \E k \in 1..(Len(line.dep) - 1) :
           line.dep[k] = "\"" /\ line.dep[k + 1] = dep_to_remove

RECURSIVE CleanupLoop(_, _, _, _, _)
\* the rewriting loop of cleanup_dependencies_from_pyproject from line i on
CleanupLoop(lines, i, in_dependencies, to_remove, new_lines) ==
    IF i > Len(lines) THEN new_lines
    ELSE IF StartsWithHeader(lines[i])
         THEN CleanupLoop(lines, i + 1, TRUE, to_remove, Append(new_lines, lines[i]))
    ELSE IF in_dependencies /\ EndsWithBracket(lines[i])
         THEN CleanupLoop(lines, i + 1, FALSE, to_remove, Append(new_lines, lines[i]))
    ELSE IF in_dependencies
         THEN IF \E d \in to_remove : ContainsQuoted(lines[i], d)
              THEN CleanupLoop(lines, i + 1, in_dependencies, to_remove, new_lines)
              ELSE CleanupLoop(lines, i + 1, in_dependencies, to_remove,
                               Append(new_lines, lines[i]))
    ELSE CleanupLoop(lines, i + 1, in_dependencies, to_remove,
                     Append(new_lines, lines[i]))

\* the content of pyproject.toml after cleanup_dependencies_from_pyproject
cleanup_dependencies_from_pyproject(pp, service_type) ==
    IF ~pp.exists THEN pp
    ELSE File(CleanupLoop(pp.lines, 1, FALSE,
                          dependencies_to_remove_for(service_type), <<>>))

-----------------------------------------------------------------------------
(* Lines of the generated Python files (app/core/config.py, app/main.py,   *)
(* app/core/dependencies.py).  A line is its indentation, its first words  *)
(* (head) and what the rest of the line depends on (rest).  The settings   *)
(* and import lines the generators write are unindented or indented by     *)
(* four blanks, and the patterns below are read on such lines.             *)

Ln(indent, head, rest) == [indent |-> indent, head |-> head, rest |-> rest]
Empty == Ln("", "", <<>>)

\* content.split('\n') of the empty string
NoText == <<Empty>>

DbSentinel == "# Database settings"
CacheSentinel == "# Cache settings"
AuthSentinel == "# Authentication settings"
ConfigAnchor == "class Config:"

\* project_name.replace("-", "_")
Underscored(project_name) == IF project_name = "my-app" THEN "my_app" ELSE project_name

\* _generate_database_config_section: db_configs.get(db_choice, "")
generate_database_config_section(db_choice, project_name) ==
    IF db_choice \in {"postgresql", "mysql", "sqlite", "mongodb", "mssql"}
    THEN << Ln("    ", DbSentinel, <<>>),
            Ln("    ", "DATABASE_URL:", <<db_choice, Underscored(project_name)>>) >>
    ELSE NoText

\* _generate_cache_config_section: cache_configs.get(cache_choice, "")
generate_cache_config_section(cache_choice, project_name) ==
    IF cache_choice = "redis"
    THEN << Ln("    ", CacheSentinel, <<>>), Ln("    ", "CACHE_TTL:", <<>>),
            Ln("    ", "REDIS_URL:", <<>>) >>
    ELSE IF cache_choice = "memcached"
    THEN << Ln("    ", CacheSentinel, <<>>), Ln("    ", "CACHE_TTL:", <<>>),
            Ln("    ", "MEMCACHED_SERVERS:", <<>>) >>
    ELSE IF cache_choice = "dynamodb"
    THEN << Ln("    ", CacheSentinel, <<>>), Ln("    ", "CACHE_TTL:", <<>>),
            Ln("    ", "AWS_REGION:", <<>>),
            Ln("    ", "DYNAMODB_TABLE_NAME:", <<Underscored(project_name)>>),
            Ln("    ", "AWS_ACCESS_KEY_ID:", <<>>),
            Ln("    ", "AWS_SECRET_ACCESS_KEY:", <<>>) >>
    ELSE IF cache_choice = "in-memory"
    THEN << Ln("    ", CacheSentinel, <<>>), Ln("    ", "CACHE_TTL:", <<>>),
            Ln("    ", "CACHE_MAX_SIZE:", <<>>) >>
    ELSE NoText

\* _generate_auth_config_section: auth_configs.get(auth_type, "")
generate_auth_config_section(auth_type, project_name) ==
    IF auth_type = "jwt"
    THEN << Ln("    ", AuthSentinel, <<>>), Ln("    ", "SECRET_KEY:", <<>>),
            Ln("    ", "ACCESS_TOKEN_EXPIRE_MINUTES:", <<>>),
            Ln("    ", "REFRESH_TOKEN_EXPIRE_DAYS:", <<>>) >>
    ELSE IF auth_type = "oauth"
    THEN << Ln("    ", AuthSentinel, <<>>), Ln("    ", "SECRET_KEY:", <<>>),
            Ln("    ", "OAUTH_CLIENT_ID:", <<>>), Ln("    ", "OAUTH_CLIENT_SECRET:", <<>>),
            Ln("    ", "OAUTH_REDIRECT_URI:", <<>>), Ln("    ", "OAUTH_PROVIDER_URL:", <<>>) >>
    ELSE NoText

\* '<text>' in content, for a text that is the head of a line
HasHead(lines, head) == \E i \in 1..Len(lines) : lines[i].head = head

\* the line holds '    class Config:'
IsAnchor(line) == line.indent = "    " /\ line.head = ConfigAnchor

RECURSIVE ReplaceAnchor(_, _, _)
\* content.replace("    class Config:", f"{section}\n    class Config:") from line i
\* on: every occurrence is replaced
ReplaceAnchor(lines, section, i) ==
    IF i > Len(lines) THEN <<>>
    ELSE IF IsAnchor(lines[i])
    THEN section \o <<lines[i]>> \o ReplaceAnchor(lines, section, i + 1)
    ELSE <<lines[i]>> \o ReplaceAnchor(lines, section, i + 1)

\* a mutant: the section is spliced in without looking for its sentinel first
update_configuration_unguarded(file, choice, sentinel, section) ==
    IF choice = "none" THEN file
    ELSE IF ~file.exists THEN file
    ELSE IF HasHead(file.lines, ConfigAnchor)
    THEN File(ReplaceAnchor(file.lines, section, 1))
    ELSE file

\* the body shared by update_database_configuration, update_cache_configuration
\* and update_auth_configuration; file is app/core/config.py
update_configuration(file, choice, sentinel, section) ==
    IF choice = "none" THEN file
    ELSE IF ~file.exists THEN file
    ELSE IF HasHead(file.lines, sentinel) THEN file
    ELSE IF HasHead(file.lines, ConfigAnchor)
    THEN File(ReplaceAnchor(file.lines, section, 1))
    ELSE file

update_database_configuration(config, db_choice, project_name) ==
    update_configuration(config, db_choice, DbSentinel,
                         generate_database_config_section(db_choice, project_name))

update_cache_configuration(config, cache_choice, project_name) ==
    update_configuration(config, cache_choice, CacheSentinel,
                         generate_cache_config_section(cache_choice, project_name))

update_auth_configuration(config, auth_type, project_name) ==
    update_configuration(config, auth_type, AuthSentinel,
                         generate_auth_config_section(auth_type, project_name))

\* heads that begin with a capital letter
UpperHeads ==
    { "PROJECT_NAME:", "DEBUG:", "DATABASE_URL:", "CACHE_TTL:", "REDIS_URL:",
      "MEMCACHED_SERVERS:", "CACHE_MAX_SIZE:", "AWS_REGION:", "DYNAMODB_TABLE_NAME:",
      "AWS_ACCESS_KEY_ID:", "AWS_SECRET_ACCESS_KEY:", "SECRET_KEY:",
      "ACCESS_TOKEN_EXPIRE_MINUTES:", "REFRESH_TOKEN_EXPIRE_DAYS:", "OAUTH_CLIENT_ID:",
      "OAUTH_CLIENT_SECRET:", "OAUTH_REDIRECT_URI:", "OAUTH_PROVIDER_URL:" }

\* heads that begin with 'class'
ClassHeads == { "class Config:", "class Settings(BaseSettings):" }

\* the lookahead (?=\n    [A-Z]|\n    class|\nclass) holds just before this line
EndsSection(line) ==
    \/ line.indent = "    " /\ line.head \in UpperHeads \cup ClassHeads
    \/ line.indent = "" /\ line.head \in ClassHeads

RECURSIVE SectionEnd(_, _)
\* the last line a lazy '.*?' that starts on line j takes before the lookahead (or
\* \Z) holds
SectionEnd(lines, j) ==
    IF j >= Len(lines) THEN Len(lines)
    ELSE IF EndsSection(lines[j + 1]) THEN j
    ELSE SectionEnd(lines, j + 1)

RECURSIVE RemoveSection(_, _, _)
\* re.sub(r'    <sentinel>\n.*?(?=\n    [A-Z]|\n    class|\nclass|\Z)', '', content,
\* flags=re.DOTALL) from line i on: the sentinel line and the lines up to the end of
\* the match go, the line break before the match stays
RemoveSection(lines, sentinel, i) ==
    IF i > Len(lines) THEN <<>>
    ELSE IF lines[i].indent = "    " /\ lines[i].head = sentinel /\ i < Len(lines)
    THEN <<Empty>> \o RemoveSection(lines, sentinel, SectionEnd(lines, i + 1) + 1)
    ELSE <<lines[i]>> \o RemoveSection(lines, sentinel, i + 1)

RECURSIVE RemoveField(_, _, _)
\* re.sub(r'    <FIELD>:.*?\n', '', content, flags=re.DOTALL) from line i on: a
\* field line that is followed by a line break goes with it
RemoveField(lines, field, i) ==
    IF i > Len(lines) THEN <<>>
    ELSE IF lines[i].indent = "    " /\ lines[i].head = field /\ i < Len(lines)
    THEN RemoveField(lines, field, i + 1)
    ELSE <<lines[i]>> \o RemoveField(lines, field, i + 1)

RECURSIVE RemoveFields(_, _)
RemoveFields(lines, fields) ==
    IF fields = <<>> THEN lines
    ELSE RemoveFields(RemoveField(lines, Head(fields), 1), Tail(fields))

RECURSIVE CollapseNewlines(_)
\* re.sub(r'\n\n\n+', '\n\n', content): three line breaks in a row are two empty
\* lines between their neighbours; one is dropped until no such run is left
CollapseNewlines(lines) ==
    IF \E i \in 1..(Len(lines) - 3) : lines[i + 1] = Empty /\ lines[i + 2] = Empty
    THEN LET i == CHOOSE k \in 1..(Len(lines) - 3) :
                      lines[k + 1] = Empty /\ lines[k + 2] = Empty
         IN  CollapseNewlines(SubSeq(lines, 1, i) \o SubSeq(lines, i + 2, Len(lines)))
    ELSE lines

\* the body shared by cleanup_cache_config, cleanup_database_config and
\* cleanup_auth_config
cleanup_config(file, sentinel, fields) ==
    IF ~file.exists THEN file
    ELSE File(CollapseNewlines(
                  RemoveFields(RemoveSection(file.lines, sentinel, 1), fields)))

cleanup_cache_config(config) ==
    cleanup_config(config, CacheSentinel,
                   <<"CACHE_TTL:", "REDIS_URL:", "MEMCACHED_SERVERS:", "CACHE_MAX_SIZE:">>)

cleanup_database_config(config) ==
    cleanup_config(config, DbSentinel, <<"DATABASE_URL:">>)

cleanup_auth_config(config) ==
    cleanup_config(config, AuthSentinel,
                   <<"SECRET_KEY:", "ACCESS_TOKEN_EXPIRE_MINUTES:",
                     "REFRESH_TOKEN_EXPIRE_DAYS:", "OAUTH_CLIENT_ID:",
                     "OAUTH_CLIENT_SECRET:", "OAUTH_REDIRECT_URI:", "OAUTH_PROVIDER_URL:">>)

-----------------------------------------------------------------------------
(* app/main.py.  An import line has head "from" or "import"; its rest is   *)
(* the module, cut into tokens so that a package is a prefix of its        *)
(* submodules, then (for "from") the token " import " and the name.  The   *)
(* import lines of main.py are unindented.                                 *)

AppDb == <<"app", ".db">>
AppCache == <<"app", ".cache">>
AppAuth == <<"app", ".auth">>

FromImport(module, name) == Ln("", "from", module \o <<" import ", name>>)
Import(module) == Ln("", "import", module)

IsPrefix(p, s) == Len(p) <= Len(s) /\ SubSeq(s, 1, Len(p)) = p

\* line.strip().startswith('from ') or line.strip().startswith('import ')
IsImportLine(line) == line.head \in {"from", "import"}

\* "from <pkg>" in content
ContainsFrom(lines, pkg) ==
    \E i \in 1..Len(lines) : lines[i].head = "from" /\ IsPrefix(pkg, lines[i].rest)

\* the line matches r'from <pkg> import.*?\n'
MatchesFromImport(lines, i, pkg) ==
    /\ lines[i].head = "from"
    /\ IsPrefix(pkg \o <<" import ">>, lines[i].rest)
    /\ i < Len(lines)

\* the line matches r'import <pkg>.*?\n'
MatchesImport(lines, i, pkg) ==
    /\ lines[i].head = "import"
    /\ IsPrefix(pkg, lines[i].rest)
    /\ i < Len(lines)

RECURSIVE RemoveFromImports(_, _, _)
RemoveFromImports(lines, pkg, i) ==
    IF i > Len(lines) THEN <<>>
    ELSE IF MatchesFromImport(lines, i, pkg) THEN RemoveFromImports(lines, pkg, i + 1)
    ELSE <<lines[i]>> \o RemoveFromImports(lines, pkg, i + 1)

RECURSIVE RemoveImports(_, _, _)
RemoveImports(lines, pkg, i) ==
    IF i > Len(lines) THEN <<>>
    ELSE IF MatchesImport(lines, i, pkg) THEN RemoveImports(lines, pkg, i + 1)
    ELSE <<lines[i]>> \o RemoveImports(lines, pkg, i + 1)

\* the body shared by cleanup_cache_imports, cleanup_database_imports and
\* cleanup_auth_imports; file is app/main.py
cleanup_imports(file, pkg) ==
    IF ~file.exists THEN file
    ELSE File(RemoveImports(RemoveFromImports(file.lines, pkg, 1), pkg, 1))

cleanup_cache_imports(main) == cleanup_imports(main, AppCache)
cleanup_database_imports(main) == cleanup_imports(main, AppDb)
cleanup_auth_imports(main) == cleanup_imports(main, AppAuth)

\* last_import_index, counted from 1; 0 when no line is an import
LastImportIndex(lines) ==
    IF \E i \in 1..Len(lines) : IsImportLine(lines[i])
    THEN CHOOSE i \in 1..Len(lines) :
             /\ IsImportLine(lines[i])
             /\ \A j \in (i + 1)..Len(lines) : ~IsImportLine(lines[j])
    ELSE 0

\* the body shared by ensure_database_imports_in_main,
\* ensure_cache_imports_in_main and ensure_auth_imports_in_main
ensure_imports_in_main(file, choice, pkg, import_line) ==
    IF choice = "none" THEN file
    ELSE IF ~file.exists THEN file
    ELSE IF ContainsFrom(file.lines, pkg) THEN file
    ELSE LET k == LastImportIndex(file.lines)
         IN  IF k >= 1
             THEN File(SubSeq(file.lines, 1, k) \o <<import_line>>
                           \o SubSeq(file.lines, k + 1, Len(file.lines)))
             ELSE file

ensure_database_imports_in_main(main, db_choice) ==
    ensure_imports_in_main(main, db_choice, AppDb,
                           FromImport(<<"app", ".db", ".session">>, "db_manager"))

ensure_cache_imports_in_main(main, cache_choice) ==
    ensure_imports_in_main(main, cache_choice, AppCache,
                           FromImport(AppCache, "cache_client"))

ensure_auth_imports_in_main(main, auth_type) ==
    ensure_imports_in_main(main, auth_type, AppAuth,
                           FromImport(AppAuth, "auth_service"))

-----------------------------------------------------------------------------
(* The project directory.  A disk is the directories under app/ that       *)
(* exist, the rendered files (a path with the text rendered there),        *)
(* and the three files that are patched in place: app/core/config.py,      *)
(* app/main.py and pyproject.toml.  app/core/dependencies.py is written by *)
(* nothing in the program, so generate_auth_dependencies and               *)
(* cleanup_auth_dependencies return at their existence test.               *)

\* a directory is the sequence of its path components below the project root
DbDir == <<"app", "db">>
CacheDir == <<"app", "cache">>
AuthDir == <<"app", "auth">>
JobsDir == <<"app", "jobs">>

Path(dir, name) == <<dir, name>>

\* template.render(context): the text is a function of the template and the
\* context
Render(template, context) == <<template, context>>

\* template.render(context) written to dest_path, the directory being there
RenderFile(d, dir, name, context) ==
    [d EXCEPT !.files = {f \in @ : f[1] # Path(dir, name)}
                            \cup {Render(Path(dir, name), context)}]

\* the same for a set of paths and one context
RenderSet(d, paths, context) ==
    [d EXCEPT !.files = {f \in @ : f[1] \notin paths}
                            \cup {Render(p, context) : p \in paths}]

\* render_and_write of the service generators: the context is the provider and
\* the project name
render_and_write(d, dir, name, choice, project_name) ==
    RenderFile(d, dir, name, <<choice, project_name>>)

\* path.mkdir(parents=True, exist_ok=True)
ensure_dir(d, dir) == [d EXCEPT !.dirs = @ \cup {dir}]

\* file_path.unlink() for every listed file that exists
Unlink(d, dir, names) ==
    [d EXCEPT !.files = {f \in @ : f[1] \notin {Path(dir, n) : n \in names}}]

\* render_and_write for every file of a list
WriteAll(d, dir, names, choice, project_name) ==
    RenderSet(d, {Path(dir, names[k]) : k \in 1..Len(names)}, <<choice, project_name>>)

CacheClientFiles ==
    ("redis" :> "redis_client.py") @@ ("memcached" :> "memcached_client.py") @@
    ("dynamodb" :> "dynamodb_client.py") @@ ("in-memory" :> "memory_client.py")

DbClientFiles ==
    ("postgresql" :> "postgresql_client.py") @@ ("mysql" :> "mysql_client.py") @@
    ("sqlite" :> "sqlite_client.py") @@ ("mongodb" :> "mongodb_client.py") @@
    ("mssql" :> "mssql_client.py")

AuthProviderFiles ==
    ("jwt" :> "jwt_provider.py") @@ ("oauth" :> "oauth_provider.py")

\* if choice in client_templates: render_and_write(...)
GenerateClientFile(d, dir, table, choice, project_name) ==
    IF choice \in DOMAIN table
    THEN render_and_write(d, dir, table[choice], choice, project_name)
    ELSE d

cleanup_cache_files(d) ==
    IF CacheDir \notin d.dirs THEN d
    ELSE Unlink(d, CacheDir, {"redis_client.py", "memcached_client.py", "memory_client.py"})

cleanup_database_files(d) ==
    IF DbDir \notin d.dirs THEN d
    ELSE Unlink(d, DbDir, {"base.py", "base_model.py", "postgresql_client.py",
                           "mysql_client.py", "sqlite_client.py", "mongodb_client.py",
                           "mssql_client.py"})

cleanup_auth_files(d) ==
    IF AuthDir \notin d.dirs THEN d
    ELSE Unlink(d, AuthDir, {"jwt_provider.py", "oauth_provider.py", "auth_service.py",
                             "models.py", "schemas.py"})

generate_database_setup(d, db_choice, project_name) ==
    IF db_choice = "none" THEN d
    ELSE GenerateClientFile(
             WriteAll(ensure_dir(d, DbDir), DbDir,
                      <<"__init__.py", "base.py", "session.py", "base_model.py">>,
                      db_choice, project_name),
             DbDir, DbClientFiles, db_choice, project_name)

generate_cache_setup(d, cache_choice, project_name, clean_existing) ==
    LET c == IF clean_existing
             THEN [cleanup_cache_files(d) EXCEPT
                       !.config = cleanup_cache_config(d.config),
                       !.main = cleanup_cache_imports(d.main)]
             ELSE d
    IN  IF cache_choice = "none" THEN c
        ELSE GenerateClientFile(
                 WriteAll(ensure_dir(c, CacheDir), CacheDir, <<"__init__.py">>,
                          cache_choice, project_name),
                 CacheDir, CacheClientFiles, cache_choice, project_name)

generate_auth_setup(d, auth_type, project_name) ==
    IF auth_type = "none" THEN d
    ELSE GenerateClientFile(
             WriteAll(ensure_dir(d, AuthDir), AuthDir, <<"__init__.py">>,
                      auth_type, project_name),
             AuthDir, AuthProviderFiles, auth_type, project_name)

cleanup_all_service_files(d, service_type) ==
    LET c == IF service_type = "cache"
             THEN [cleanup_cache_files(d) EXCEPT
                       !.config = cleanup_cache_config(d.config),
                       !.main = cleanup_cache_imports(d.main)]
             ELSE IF service_type = "db"
             THEN [cleanup_database_files(d) EXCEPT
                       !.config = cleanup_database_config(d.config),
                       !.main = cleanup_database_imports(d.main)]
             ELSE IF service_type = "auth"
             THEN [cleanup_auth_files(d) EXCEPT
                       !.config = cleanup_auth_config(d.config),
                       !.main = cleanup_auth_imports(d.main)]
             ELSE d
    IN  [c EXCEPT !.pyproject = cleanup_dependencies_from_pyproject(@, service_type)]

-----------------------------------------------------------------------------
(* The manifests a run starts from                                         *)

ProjectTable == TextLine(<<"[project]">>)
NameField == TextLine(<<"name = ", "\"", "demo", "\"">>)
FastkitTable == TextLine(<<"[tool.fastkit]">>)
FastkitFlag == TextLine(<<"project = true">>)
HatchTable == TextLine(<<"[tool.hatch.envs.default]">>)
DescriptionField == TextLine(<<"description = ", "\"", "redis", " demo", "\"">>)

Fastapi == Ge(<<"fastapi">>, "0.116")
Redis4 == Ge(<<"redis">>, "4.0.0")
Redis5 == <<"redis", "=", "=", "5.0">>
RedisBare == <<"redis">>
Celery == Ge(<<"celery">>, "5.2.0")
Sqlalchemy == Ge(<<"sqlalchemy">>, "2.0.0")
RedisOm == Ge(<<"redis", "-om">>, "0.2.0")
Cryptography == Ge(<<"cryptography">>, "40.0.0")

\* a manifest with a delimited dependency array holding the given entry lines
Manifest(entries) ==
    <<ProjectTable, NameField, HeaderLine>> \o entries
        \o <<CloseLine, FastkitTable, FastkitFlag>>

ManifestLayouts ==
    { Manifest(<<>>),
      Manifest(<<EntryLine(Fastapi, TRUE)>>),
      Manifest(<<EntryLine(Fastapi, TRUE), EntryLine(Sqlalchemy, TRUE),
                 EntryLine(Redis4, TRUE)>>),
      \* valid TOML: the last element of the array has no trailing comma
      Manifest(<<EntryLine(Fastapi, TRUE), EntryLine(Redis4, FALSE)>>),
      \* no dependency array at all
      <<ProjectTable, NameField, FastkitTable, FastkitFlag>>,
      \* the array is opened and never closed
      <<ProjectTable, NameField, HeaderLine, EntryLine(Redis4, TRUE),
        EntryLine(Fastapi, TRUE)>>,
      \* packages of no service category beside one of the cache category
      Manifest(<<EntryLine(RedisOm, TRUE), EntryLine(Cryptography, TRUE),
                 EntryLine(Redis4, TRUE)>>),
      \* a second array named dependencies in another table
      Manifest(<<EntryLine(Fastapi, TRUE)>>)
          \o <<HatchTable, HeaderLine, EntryLine(Redis4, TRUE), CloseLine>>,
      \* the whole array on one line, followed by other fields of the table
      <<ProjectTable, NameField, InlineLine(<<"\"", "fastapi", ">", "=", "0.116", "\"">>),
        DescriptionField, FastkitTable, FastkitFlag>> }

\* arguments of add_dependencies
AddInputs ==
    { <<Redis4>>, <<Redis5>>, <<Celery, Redis4>>, <<Redis4, Redis5>>, <<Fastapi>> }

\* arguments of sync_service_dependencies
SyncInputs ==
    { <<"cache", "redis">>, <<"jobs", "celery">>, <<"db", "sqlite">>,
      <<"serialization", "json">>, <<"cache", "valkey">> }

\* arguments of sync_multiple_services (the dict's items in insertion order)
SyncMultipleInputs ==
    { << <<"db", "postgresql">>, <<"cache", "redis">> >>,
      << <<"cache", "redis">>, <<"jobs", "celery">> >> }

\* arguments of remove_dependencies
RemoveInputs == { <<RedisBare>>, <<Redis5>>, <<Sqlalchemy, Fastapi>> }

\* arguments of cleanup_dependencies_from_pyproject
CleanupInputs == {"db", "cache", "auth", "jobs"}

NoOp == [op |-> "none", deps |-> <<>>, services |-> <<>>]

\* no rendered file
NoFiles == {}

EmptyDisk ==
    [dirs |-> {}, files |-> NoFiles, config |-> NoFile, main |-> NoFile,
     pyproject |-> NoFile]

InitManifest ==
    /\ pyproject \in {File(ls) : ls \in ManifestLayouts} \cup {NoFile}
    /\ dirs = {}
    /\ files = NoFiles
    /\ config_py = NoFile
    /\ main_py = NoFile
    /\ origin = EmptyDisk
    /\ pc = "done"
    /\ calls = <<>>
    /\ last = NoOp
    /\ steps = 0

Step(op, deps, services) ==
    /\ steps < MaxOps
    /\ steps' = steps + 1
    /\ last' = [op |-> op, deps |-> deps, services |-> services]

\* the operations of the dependency manager touch pyproject.toml only
ManifestOnly == UNCHANGED <<dirs, files, config_py, main_py, origin, pc, calls>>

AddDependencies ==
    \E new_dependencies \in AddInputs :
        /\ Step("add_dependencies", new_dependencies, <<>>)
        /\ pyproject' = add_dependencies(pyproject, new_dependencies)
        /\ ManifestOnly

SyncServiceDependencies ==
    \E s \in SyncInputs :
        /\ Step("sync_service_dependencies", <<>>, <<s>>)
        /\ pyproject' = sync_service_dependencies(pyproject, s[1], s[2])
        /\ ManifestOnly

SyncMultipleServices ==
    \E services \in SyncMultipleInputs :
        /\ Step("sync_multiple_services", <<>>, services)
        /\ pyproject' = sync_multiple_services(pyproject, services)
        /\ ManifestOnly

RemoveDependencies ==
    \E dependencies_to_remove \in RemoveInputs :
        /\ Step("remove_dependencies", dependencies_to_remove, <<>>)
        /\ pyproject' = remove_dependencies(pyproject, dependencies_to_remove)
        /\ ManifestOnly

CleanupDependenciesFromPyproject ==
    \E service_type \in CleanupInputs :
        /\ Step("cleanup_dependencies_from_pyproject", <<>>, <<<<service_type, "">>>>)
        /\ pyproject' = cleanup_dependencies_from_pyproject(pyproject, service_type)
        /\ ManifestOnly

NextManifest ==
    \/ AddDependencies
    \/ SyncServiceDependencies
    \/ SyncMultipleServices
    \/ RemoveDependencies
    \/ CleanupDependenciesFromPyproject

SpecManifest == InitManifest /\ [][NextManifest]_vars

-----------------------------------------------------------------------------
(* Project creation: scaffold_project_structure and what it calls.  The    *)
(* templates are not part of the sources read here; a rendered file is the *)
(* pair (template path, context), and the three files that are patched     *)
(* later get the text below.                                               *)

\* app/core/config.py as rendered: one settings class that ends in one nested
\* 'class Config:' block
ConfigTemplate ==
    << Ln("", "import", <<"os">>),
       Ln("", "from", <<"pydantic_settings", " import ", "BaseSettings">>),
       Empty,
       Ln("", "class Settings(BaseSettings):", <<>>),
       Ln("    ", "PROJECT_NAME:", <<>>),
       Ln("    ", "DEBUG:", <<>>),
       Empty,
       Ln("    ", ConfigAnchor, <<>>),
       Ln("        ", "env_file =", <<>>),
       Empty,
       Ln("", "settings = Settings()", <<>>),
       Empty >>

\* app/main.py as rendered with {"title": service_name}
MainTemplate(service_name) ==
    << Ln("", "from", <<"fastapi", " import ", "FastAPI">>),
       Ln("", "from", <<"app", ".core", ".config", " import ", "settings">>),
       Empty,
       Ln("", "app = FastAPI(", <<service_name>>),
       Empty >>

\* pyproject.toml as rendered with {"project_name": project_name}
PyprojectTemplate(project_name) ==
    << ProjectTable,
       TextLine(<<"name = ", "\"", project_name, "\"">>),
       HeaderLine,
       EntryLine(Fastapi, TRUE),
       EntryLine(Ge(<<"uvicorn", "[standard]">>, "0.30"), TRUE),
       CloseLine,
       FastkitTable,
       FastkitFlag >>

\* _ensure_dir for every directory of the list
EnsureDirs(d, ds) == [d EXCEPT !.dirs = @ \cup ds]

\* _render_and_write with one context for every path of a list; the paths differ,
\* so the order of the writes does not show
RenderFiles(d, paths, context) ==
    RenderSet(d, {paths[k] : k \in 1..Len(paths)}, context)

\* _scaffold_rest_api_service, _scaffold_fullstack_backend and _scaffold_service
\* create the same tree from three template sets; root is service_path below the
\* project root.  config.py and main.py of a service at the project root are the
\* files patched later.
ScaffoldServiceTree(d, root, service_name, auth_type, db_choice, cache_choice) ==
    LET app == root \o <<"app">>
        d1 == EnsureDirs(d, { root, app, app \o <<"api">>, app \o <<"api", "v1">>,
                              app \o <<"core">>, app \o <<"models">>,
                              app \o <<"services">>, app \o <<"repositories">>,
                              app \o <<"middleware">>, app \o <<"schemas">>,
                              app \o <<"utils">>, root \o <<"tests">>,
                              root \o <<"infra">> })
        d2 == IF auth_type # "none"
              THEN RenderFiles(EnsureDirs(d1, {app \o <<"auth">>}),
                               << Path(app \o <<"auth">>, "__init__.py"),
                                  Path(app \o <<"auth">>, "routes.py") >>, <<>>)
              ELSE d1
        d3 == IF db_choice # "none"
              THEN RenderFiles(EnsureDirs(d2, {app \o <<"db">>}),
                               << Path(app \o <<"db">>, "__init__.py"),
                                  Path(app \o <<"db">>, "session.py") >>, <<>>)
              ELSE d2
        d4 == IF cache_choice # "none"
              THEN RenderFiles(EnsureDirs(d3, {app \o <<"cache">>}),
                               << Path(app \o <<"cache">>, "__init__.py"),
                                  Path(app \o <<"cache">>, "client.py") >>, <<>>)
              ELSE d3
        d5 == RenderFiles(d4,
                  << Path(app, "__init__.py"),
                     Path(app \o <<"core">>, "__init__.py"),
                     Path(app \o <<"api">>, "__init__.py"),
                     Path(app \o <<"api", "v1">>, "__init__.py"),
                     Path(app \o <<"api", "v1">>, "routes.py"),
                     Path(app \o <<"models">>, "__init__.py"),
                     Path(app \o <<"services">>, "__init__.py"),
                     Path(app \o <<"repositories">>, "__init__.py"),
                     Path(app \o <<"middleware">>, "__init__.py"),
                     Path(app \o <<"middleware">>, "error_handler.py"),
                     Path(app \o <<"schemas">>, "__init__.py"),
                     Path(app \o <<"utils">>, "__init__.py"),
                     Path(app \o <<"utils">>, "logger.py"),
                     Path(root \o <<"tests">>, "__init__.py"),
                     Path(root \o <<"infra">>, ".gitkeep") >>, <<>>)
    IN  IF root = <<>>
        THEN [d5 EXCEPT !.main = File(MainTemplate(service_name)),
                        !.config = File(ConfigTemplate)]
        ELSE RenderFile(RenderFile(d5, app, "main.py", <<service_name>>),
                        app \o <<"core">>, "config.py", <<>>)

scaffold_rest_api_service(d, service_name, auth_type, db_choice, cache_choice) ==
    ScaffoldServiceTree(d, <<>>, service_name, auth_type, db_choice, cache_choice)

scaffold_fullstack_backend(d, service_name, auth_type, db_choice, cache_choice) ==
    ScaffoldServiceTree(d, <<"backend">>, service_name, auth_type, db_choice,
                        cache_choice)

RECURSIVE ScaffoldServices(_, _, _, _, _)
\* for service_name in ...: _scaffold_service(services_root / service_name, ...)
ScaffoldServices(d, names, auth_type, db_choice, cache_choice) ==
    IF names = <<>> THEN d
    ELSE ScaffoldServices(
             ScaffoldServiceTree(d, <<"services", Head(names)>>, Head(names),
                                 auth_type, db_choice, cache_choice),
             Tail(names), auth_type, db_choice, cache_choice)

\* an architecture_config: the keys it sets and their values; the value of a
\* key it does not set is not read
\* config.get(key, default)
Get(config, key, default) ==
    IF key \in config.keys THEN config[key] ELSE default

\* the architecture_config in which no key is set: architecture_config or {}
NoConfig ==
    [keys |-> {}, services |-> <<>>, include_gateway |-> TRUE, include_shared |-> TRUE]

\* the services list of the orchestration files: config.get("services", [])
\* with "api-gateway" in front when the gateway is requested
ServicesList(config) ==
    (IF Get(config, "include_gateway", TRUE) THEN <<"api-gateway">> ELSE <<>>)
    \o Get(config, "services", <<>>)

\* the context of docker-compose.yml and docker-compose.dev.yml: the services
\* list, then project_name
ComposeContext(config, project_name) ==
    ServicesList(config) \o <<project_name>>

\* _scaffold_microservices
scaffold_microservices_config(d, project_name, auth_type, db_choice, cache_choice, config) ==
    LET d1 == EnsureDirs(d, { <<"services">>, <<"shared">> })
        d2 == IF Get(config, "include_shared", TRUE)
              THEN RenderFiles(EnsureDirs(d1, { <<"shared", "models">>,
                                                <<"shared", "utils">>,
                                                <<"shared", "auth">> }),
                               << Path(<<"shared", "models">>, "__init__.py"),
                                  Path(<<"shared", "utils">>, "__init__.py"),
                                  Path(<<"shared", "auth">>, "__init__.py") >>, <<>>)
              ELSE d1
        d3 == IF Get(config, "include_gateway", TRUE)
              THEN RenderFile(
                       EnsureDirs(ScaffoldServices(d2, <<"api-gateway">>, auth_type,
                                                   db_choice, cache_choice),
                                  {<<"services", "api-gateway", "app", "gateway">>}),
                       <<"services", "api-gateway", "app", "gateway">>, "routes.py",
                       Get(config, "services", <<>>))
              ELSE d2
        d4 == ScaffoldServices(d3, Get(config, "services", <<"service-1", "service-2">>),
                               auth_type, db_choice, cache_choice)
    IN  RenderFiles(d4, << Path(<<>>, "docker-compose.yml"),
                           Path(<<>>, "docker-compose.dev.yml") >>,
                    ComposeContext(config, project_name))

\* _scaffold_microservices for an architecture_config in which no key is set, so
\* that every config.get(...) gives its default
scaffold_microservices(d, project_name, auth_type, db_choice, cache_choice) ==
    scaffold_microservices_config(d, project_name, auth_type, db_choice, cache_choice, NoConfig)

\* the layers of _scaffold_onion_architecture, every config.get(...) at its default
OnionPackages ==
    { <<"src", "domain", "entities">>, <<"src", "domain", "value_objects">>,
      <<"src", "domain", "repositories">>, <<"src", "domain", "services">>,
      <<"src", "application", "use_cases">>, <<"src", "application", "dtos">>,
      <<"src", "application", "interfaces">>,
      <<"src", "infrastructure", "database">>,
      <<"src", "infrastructure", "external_services">>,
      <<"src", "infrastructure", "repositories">>,
      <<"src", "presentation", "api">>, <<"src", "presentation", "controllers">>,
      <<"src", "presentation", "schemas">>,
      <<"tests", "unit">>, <<"tests", "integration">> }

scaffold_onion_architecture(d, project_name, auth_type, db_choice, cache_choice) ==
    LET d1 == EnsureDirs(d, {<<"src">>} \cup OnionPackages)
        d2 == RenderSet(d1, {Path(dir, "__init__.py") : dir \in OnionPackages}, <<>>)
        d3 == RenderFile(RenderFile(d2, <<"src", "domain", "entities">>, "user.py",
                                    <<"User">>),
                         <<"src", "domain", "entities">>, "product.py", <<"Product">>)
        d4 == RenderFile(d3, <<"src", "presentation", "api">>, "routes.py", <<>>)
        d5 == RenderFile(d4, <<"src">>, "main.py", <<project_name>>)
    IN  RenderFile(d5, <<"src">>, "container.py", <<>>)

\* _scaffold_fullstack_frontend with the fallback selection; the files of the
\* chosen framework are left out, the two files common to all frameworks are kept
scaffold_fullstack_frontend(d, project_name, auth_type) ==
    RenderFiles(EnsureDirs(d, { <<"frontend">>, <<"frontend", "src">>,
                                <<"frontend", "public">> }),
                << Path(<<"frontend">>, ".gitignore"), Path(<<"frontend">>, "README.md") >>,
                <<project_name, "react", "vite", auth_type, "typescript">>)

Architectures == {"rest-apis", "fullstack", "microservices", "onion-architecture"}

\* scaffold_project_structure; architecture_config reaches _scaffold_microservices
scaffold_project_structure_config(d, project_name, architecture, auth_type, db_choice, cache_choice, architecture_config) ==
    LET d0 == EnsureDirs(d, {<<>>})
        d1 == IF architecture = "rest-apis"
              THEN scaffold_rest_api_service(d0, project_name, auth_type, db_choice,
                                             cache_choice)
              ELSE IF architecture = "fullstack"
              THEN scaffold_fullstack_frontend(
                       scaffold_fullstack_backend(d0, project_name, auth_type,
                                                  db_choice, cache_choice),
                       project_name, auth_type)
              ELSE IF architecture = "microservices"
              THEN scaffold_microservices_config(d0, project_name, auth_type,
                                                 db_choice, cache_choice,
                                                 architecture_config)
              ELSE IF architecture = "onion-architecture"
              THEN scaffold_onion_architecture(d0, project_name, auth_type, db_choice,
                                               cache_choice)
              ELSE d0
        d2 == [d1 EXCEPT !.pyproject = File(PyprojectTemplate(project_name))]
    IN  RenderFile(RenderFile(d2, <<>>, "README.md", <<project_name, architecture>>),
                   <<>>, ".gitignore", <<>>)

\* scaffold_project_structure with architecture_config left at None
scaffold_project_structure(d, project_name, architecture, auth_type, db_choice, cache_choice) ==
    scaffold_project_structure_config(d, project_name, architecture, auth_type,
                                      db_choice, cache_choice, NoConfig)

-----------------------------------------------------------------------------
(* add_service_to_project                                                  *)

\* the words _read_project_config looks for that occur in a token of the manifest
WordsIn(token) ==
    IF token \in {"redis", "pymemcache", "boto3", "cachetools", "pymysql",
                  "sqlalchemy", "python-jose", "authlib", "PyJWT", "sqlite"}
    THEN {token}
    ELSE IF token = "psycopg2-binary" THEN {"psycopg2"}
    ELSE {}

\* "<word>" in content
Mentions(lines, word) ==
    \E i \in 1..Len(lines) : \E k \in 1..Len(lines[i].dep) :
        word \in WordsIn(lines[i].dep[k])

\* the line matches r'name = "([^"]+)"'
IsNameLine(line) ==
    /\ line.kind = "text"
    /\ Len(line.dep) = 4
    /\ line.dep[1] = "name = " /\ line.dep[2] = "\"" /\ line.dep[4] = "\""

\* project_name_match.group(1) if project_name_match else "unknown"
ProjectName(lines) ==
    IF \E i \in 1..Len(lines) : IsNameLine(lines[i])
    THEN lines[CHOOSE i \in 1..Len(lines) :
                   IsNameLine(lines[i]) /\ \A j \in 1..(i - 1) : ~IsNameLine(lines[j])].dep[3]
    ELSE "unknown"

\* _read_project_config for a manifest that exists
read_project_config(pp) ==
    [ project_name |-> ProjectName(pp.lines),
      cache_choice |-> IF Mentions(pp.lines, "redis") THEN "redis"
                       ELSE IF Mentions(pp.lines, "pymemcache") THEN "memcached"
                       ELSE IF Mentions(pp.lines, "boto3") THEN "dynamodb"
                       ELSE IF Mentions(pp.lines, "cachetools") THEN "in-memory"
                       ELSE "none",
      db_choice |-> IF Mentions(pp.lines, "psycopg2") THEN "postgresql"
                    ELSE IF Mentions(pp.lines, "pymysql") THEN "mysql"
                    ELSE IF Mentions(pp.lines, "sqlalchemy") /\ ~Mentions(pp.lines, "sqlite")
                    THEN "sqlite"
                    ELSE "none",
      auth_type |-> IF Mentions(pp.lines, "python-jose") \/ Mentions(pp.lines, "PyJWT")
                    THEN "jwt"
                    ELSE IF Mentions(pp.lines, "authlib") THEN "oauth"
                    ELSE "none",
      jobs_choice |-> "none" ]

\* project_config["<type>_choice"] = service_provider
WithService(cfg, service_type, service_provider) ==
    IF service_type = "db" THEN [cfg EXCEPT !.db_choice = service_provider]
    ELSE IF service_type = "cache" THEN [cfg EXCEPT !.cache_choice = service_provider]
    ELSE IF service_type = "auth" THEN [cfg EXCEPT !.auth_type = service_provider]
    ELSE IF service_type = "jobs" THEN [cfg EXCEPT !.jobs_choice = service_provider]
    ELSE cfg

JobSchedulers == {"celery", "rq", "apscheduler", "dramatiq", "arq"}

\* "<provider>_scheduler.py"
SchedulerFile(service_provider) ==
    IF service_provider = "celery" THEN "celery_scheduler.py"
    ELSE IF service_provider = "rq" THEN "rq_scheduler.py"
    ELSE IF service_provider = "apscheduler" THEN "apscheduler_scheduler.py"
    ELSE IF service_provider = "dramatiq" THEN "dramatiq_scheduler.py"
    ELSE "arq_scheduler.py"

create_service_files(d, service_type, service_provider, cfg) ==
    LET d0 == IF service_type \notin {"db", "cache", "auth"}
              THEN ensure_dir(d, <<"app", service_type>>)
              ELSE d
    IN  IF service_type = "cache"
        THEN LET g == generate_cache_setup(d0, service_provider, cfg.project_name, TRUE)
             IN  [g EXCEPT
                     !.config = update_cache_configuration(@, service_provider,
                                                           cfg.project_name),
                     !.main = ensure_cache_imports_in_main(@, service_provider)]
        ELSE IF service_type = "db"
        THEN LET g == generate_database_setup(d0, service_provider, cfg.project_name)
             IN  [g EXCEPT
                     !.config = update_database_configuration(@, service_provider,
                                                              cfg.project_name),
                     !.main = ensure_database_imports_in_main(@, service_provider)]
        ELSE IF service_type = "auth"
        THEN LET g == generate_auth_setup(d0, service_provider, cfg.project_name)
             IN  [g EXCEPT
                     !.config = update_auth_configuration(@, service_provider,
                                                          cfg.project_name),
                     !.main = ensure_auth_imports_in_main(@, service_provider)]
        ELSE IF service_type = "jobs"
        THEN LET a == render_and_write(d0, JobsDir, "__init__.py", service_provider,
                                       cfg.project_name)
                 b == IF service_provider \in JobSchedulers
                      THEN render_and_write(a, JobsDir, SchedulerFile(service_provider),
                                            service_provider, cfg.project_name)
                      ELSE a
             IN  render_and_write(b, JobsDir, "tasks.py", service_provider,
                                  cfg.project_name)
        ELSE d0

\* _generate_db_config: a line break, the sentinel, db_configs.get(db_choice, "")
generate_db_config(cfg) ==
    << Empty, Ln("    ", DbSentinel, <<>>),
       IF cfg.db_choice \in {"postgresql", "mysql", "sqlite", "mongodb", "mssql"}
       THEN Ln("    ", "DATABASE_URL:", <<cfg.db_choice, Underscored(cfg.project_name)>>)
       ELSE Empty >>

\* _generate_cache_config: the same four blocks as _generate_cache_config_section
generate_cache_config(cfg) ==
    generate_cache_config_section(cfg.cache_choice, cfg.project_name)

update_app_config(file, cfg) ==
    LET a == IF cfg.db_choice # "none" /\ ~HasHead(file.lines, DbSentinel)
             THEN ReplaceAnchor(file.lines, generate_db_config(cfg), 1)
             ELSE file.lines
        b == IF cfg.cache_choice # "none" /\ ~HasHead(a, CacheSentinel)
             THEN ReplaceAnchor(a, generate_cache_config(cfg), 1)
             ELSE a
    IN  File(b)

update_config_files(d, cfg) ==
    IF d.config.exists THEN [d EXCEPT !.config = update_app_config(@, cfg)] ELSE d

\* a manifest that is missing makes _read_project_config raise FileNotFoundError
\* before anything is written
add_service_to_project(d, service_type, service_provider) ==
    IF ~d.pyproject.exists THEN d
    ELSE LET cfg == WithService(read_project_config(d.pyproject), service_type,
                                service_provider)
             d1 == create_service_files(d, service_type, service_provider, cfg)
             d2 == update_config_files(d1, cfg)
         IN  [d2 EXCEPT !.pyproject =
                 sync_service_dependencies(@, service_type, service_provider)]

-----------------------------------------------------------------------------
(* The operations on a project, from its creation on                       *)

Disk ==
    [dirs |-> dirs, files |-> files, config |-> config_py, main |-> main_py,
     pyproject |-> pyproject]

\* the project directory becomes d
Becomes(d) ==
    /\ dirs' = d.dirs
    /\ files' = d.files
    /\ config_py' = d.config
    /\ main_py' = d.main
    /\ pyproject' = d.pyproject

\* selections of create-project: architecture, auth_type, db_choice, cache_choice
ScaffoldInputs ==
    { <<"demo", "rest-apis", "none", "none", "none">>,
      <<"my-app", "rest-apis", "jwt", "postgresql", "redis">>,
      <<"demo", "fullstack", "none", "sqlite", "none">>,
      <<"demo", "microservices", "none", "none", "redis">>,
      <<"demo", "onion-architecture", "oauth", "none", "none">> }

DbInputs == {"postgresql", "mongodb", "none"}
\* "valkey" is a provider no table knows
CacheInputs == {"redis", "dynamodb", "in-memory", "valkey", "none"}
AuthInputs == {"jwt", "oauth", "none"}
ServiceInputs ==
    { <<"db", "mysql">>, <<"cache", "memcached">>, <<"cache", "redis">>,
      <<"auth", "jwt">>, <<"jobs", "celery">> }

InitProject ==
    /\ pyproject = NoFile
    /\ dirs = {}
    /\ files = NoFiles
    /\ config_py = NoFile
    /\ main_py = NoFile
    /\ origin = EmptyDisk
    /\ pc = "new"
    /\ calls = <<>>
    /\ last = NoOp
    /\ steps = 0

\* scaffold_project_structure called with the parameters it declares
ScaffoldProjectStructure ==
    \E i \in ScaffoldInputs :
        /\ pc = "new"
        /\ Becomes(scaffold_project_structure(Disk, i[1], i[2], i[3], i[4], i[5]))
        /\ origin' = scaffold_project_structure(Disk, i[1], i[2], i[3], i[4], i[5])
        /\ pc' = "done"
        /\ calls' = <<>>
        /\ last' = [op |-> "scaffold_project_structure", deps |-> <<>>,
                    services |-> << <<"auth", i[3]>>, <<"db", i[4]>>, <<"cache", i[5]>> >>]
        /\ UNCHANGED steps

\* an operation on the created project
ProjectStep(op, service_type, service_provider, d) ==
    /\ pc = "done"
    /\ Step(op, <<>>, << <<service_type, service_provider>> >>)
    /\ Becomes(d)
    /\ UNCHANGED <<origin, pc>>

GenerateDatabaseSetup ==
    \E db_choice \in DbInputs :
        /\ ProjectStep("generate_database_setup", "db", db_choice,
                       generate_database_setup(Disk, db_choice, ProjectName(pyproject.lines)))
        /\ calls' = <<>>

GenerateCacheSetup ==
    \E cache_choice \in CacheInputs :
        /\ ProjectStep("generate_cache_setup", "cache", cache_choice,
                       generate_cache_setup(Disk, cache_choice,
                                            ProjectName(pyproject.lines), TRUE))
        /\ calls' = <<>>

GenerateAuthSetup ==
    \E auth_type \in AuthInputs :
        /\ ProjectStep("generate_auth_setup", "auth", auth_type,
                       generate_auth_setup(Disk, auth_type, ProjectName(pyproject.lines)))
        /\ calls' = <<>>

CleanupCacheFiles ==
    /\ ProjectStep("cleanup_cache_files", "cache", "", cleanup_cache_files(Disk))
    /\ calls' = <<>>

CleanupAllServiceFiles ==
    \E service_type \in CleanupInputs :
        /\ ProjectStep("cleanup_all_service_files", service_type, "",
                       cleanup_all_service_files(Disk, service_type))
        /\ calls' = <<>>

UpdateDatabaseConfiguration ==
    \E db_choice \in DbInputs :
        /\ ProjectStep("update_database_configuration", "db", db_choice,
                       [Disk EXCEPT !.config =
                           update_database_configuration(@, db_choice,
                                                         ProjectName(pyproject.lines))])
        /\ calls' = <<>>

UpdateCacheConfiguration ==
    \E cache_choice \in CacheInputs :
        /\ ProjectStep("update_cache_configuration", "cache", cache_choice,
                       [Disk EXCEPT !.config =
                           update_cache_configuration(@, cache_choice,
                                                      ProjectName(pyproject.lines))])
        /\ calls' = <<>>

UpdateAuthConfiguration ==
    \E auth_type \in AuthInputs :
        /\ ProjectStep("update_auth_configuration", "auth", auth_type,
                       [Disk EXCEPT !.config =
                           update_auth_configuration(@, auth_type,
                                                     ProjectName(pyproject.lines))])
        /\ calls' = <<>>

AddServiceToProject ==
    \E s \in ServiceInputs :
        /\ ProjectStep("add_service_to_project", s[1], s[2],
                       add_service_to_project(Disk, s[1], s[2]))
        /\ calls' = IF pyproject.exists
                    THEN << [op |-> "sync_service_dependencies", services |-> <<s>>] >>
                    ELSE <<>>

NextProject ==
    \/ ScaffoldProjectStructure
    \/ GenerateDatabaseSetup
    \/ GenerateCacheSetup
    \/ GenerateAuthSetup
    \/ CleanupCacheFiles
    \/ CleanupAllServiceFiles
    \/ UpdateDatabaseConfiguration
    \/ UpdateCacheConfiguration
    \/ UpdateAuthConfiguration
    \/ AddServiceToProject

SpecProject == InitProject /\ [][NextProject]_vars

-----------------------------------------------------------------------------
(* scaffold_project_structure for the microservices architecture           *)

\* the values of 'services' in an architecture_config that sets it
ServiceLists == { <<>>, <<"orders">>, <<"orders", "billing">> }

\* the architecture_configs: every choice of the keys set and of their values
ArchitectureConfigs ==
    { cfg \in [keys : SUBSET {"services", "include_gateway", "include_shared"},
               services : ServiceLists, include_gateway : BOOLEAN,
               include_shared : BOOLEAN] :
          \A key \in {"services", "include_gateway", "include_shared"} \ cfg.keys :
              cfg[key] = NoConfig[key] }

InitMicroservices == InitProject

ScaffoldMicroservices ==
    \E architecture_config \in ArchitectureConfigs,
       auth_type \in {"none", "jwt"}, db_choice \in {"none", "postgresql"} :
        LET d == scaffold_project_structure_config(
                     Disk, "demo", "microservices", auth_type, db_choice, "none",
                     architecture_config)
        IN  /\ pc = "new"
            /\ Becomes(d)
            /\ origin' = Disk
            /\ pc' = "done"
            /\ calls' = <<>>
            /\ last' = [op |-> "scaffold_project_structure",
                        deps |-> <<architecture_config>>,
                        services |-> << <<"auth", auth_type>>, <<"db", db_choice>>,
                                        <<"cache", "none">> >>]
            /\ UNCHANGED steps

NextMicroservices == ScaffoldMicroservices

SpecMicroservices == InitMicroservices /\ [][NextMicroservices]_vars

-----------------------------------------------------------------------------
(* The create-project command                                              *)

\* is_valid_fastkit_project: both marker texts occur in pyproject.toml
is_valid_fastkit_project(d) ==
    /\ d.pyproject.exists
    /\ \E i \in 1..Len(d.pyproject.lines) : d.pyproject.lines[i] = FastkitTable
    /\ \E i \in 1..Len(d.pyproject.lines) : d.pyproject.lines[i] = FastkitFlag

DirsToRemove ==
    {"app", "tests", "infra", ".github", "services", "shared", "src", "backend",
     "frontend"}

FilesToRemove ==
    {"pyproject.toml", "README.md", ".gitignore", "Dockerfile", "docker-compose.yml",
     "docker-compose.yaml", "docker-compose.dev.yml", "docker-compose.dev.yaml",
     "docker-compose.prod.yml", "docker-compose.prod.yaml", ".dockerignore"}

\* The project directory as a tree of paths: the directories and the files,
\* each the sequence of its components below the project root.
ConfigPath == <<"app", "core", "config.py">>
MainPath == <<"app", "main.py">>
PyprojectPath == <<"pyproject.toml">>

Tree(d) ==
    [dirs |-> d.dirs,
     files |-> {f[1][1] \o <<f[1][2]>> : f \in d.files}
                   \cup (IF d.config.exists THEN {ConfigPath} ELSE {})
                   \cup (IF d.main.exists THEN {MainPath} ELSE {})
                   \cup (IF d.pyproject.exists THEN {PyprojectPath} ELSE {})]

\* the disk d with only the entries of tree t left
FromTree(d, t) ==
    [dirs |-> t.dirs,
     files |-> {f \in d.files : f[1][1] \o <<f[1][2]>> \in t.files},
     config |-> IF ConfigPath \in t.files THEN d.config ELSE NoFile,
     main |-> IF MainPath \in t.files THEN d.main ELSE NoFile,
     pyproject |-> IF PyprojectPath \in t.files THEN d.pyproject ELSE NoFile]

Entries(t) == t.dirs \cup t.files

\* the entries at or below path p
Below(t, p) == {q \in Entries(t) : IsPrefix(p, q)}

\* dir_path.iterdir()
Children(t, p) == {q \in Entries(t) : Len(q) = Len(p) + 1 /\ IsPrefix(p, q)}

\* removing p cannot succeed: the removal of p or of an entry below it raises
\* OSError/PermissionError (locked is the set of the entries whose unlink or
\* rmdir raises)
Blocked(t, p, locked) == Below(t, p) \cap locked # {}

\* the tree without the paths ps and everything below them
Without(t, ps) ==
    [dirs |-> {q \in t.dirs : \A p \in ps : ~IsPrefix(p, q)},
     files |-> {q \in t.files : \A p \in ps : ~IsPrefix(p, q)}]

\* how a step ends: it returns, or an OSError leaves it
Return(t) == [tree |-> t, raised |-> FALSE]
Raise(t) == [tree |-> t, raised |-> TRUE]

RECURSIVE RemoveItems(_, _, _)
RECURSIVE rmtree(_, _, _)

\* for item in dir_path.iterdir(): shutil.rmtree(item) or item.unlink().  The
\* order of the items is the file system's: any of the removable items may be
\* gone when the first removal raises.
RemoveItems(t, p, locked) ==
    LET items == Children(t, p)
        blocked == {k \in items : Blocked(t, k, locked)}
    IN  IF blocked = {} THEN {Return(Without(t, items))}
        ELSE UNION { { Raise(Without(o.tree, done)) :
                         o \in IF k \in t.files THEN {Raise(t)} ELSE rmtree(t, k, locked) } :
                     done \in SUBSET (items \ blocked), k \in blocked }

\* shutil.rmtree(p): the content first, then the directory itself
rmtree(t, p, locked) ==
    UNION { IF o.raised THEN {o}
            ELSE IF p \in locked THEN {Raise(o.tree)}
            ELSE {Return(Without(o.tree, {p}))} :
            o \in RemoveItems(t, p, locked) }

\* one round of the loop over dirs_to_remove: rmtree, on an error the content
\* item by item, on a second error the directory is skipped
remove_listed_dir(t, dir_name, locked) ==
    IF <<dir_name>> \notin t.dirs THEN {Return(t)}
    ELSE UNION { IF o.raised
                 THEN {Return(o2.tree) : o2 \in RemoveItems(o.tree, <<dir_name>>, locked)}
                 ELSE {o} :
                 o \in rmtree(t, <<dir_name>>, locked) }

\* one round of the loop over files_to_remove without its try/except
remove_listed_file_unguarded(t, file_name, locked) ==
    IF <<file_name>> \notin t.files THEN Return(t)
    ELSE IF <<file_name>> \in locked THEN Raise(t)
    ELSE Return(Without(t, {<<file_name>>}))

\* one round of the loop over files_to_remove: unlink, an error is skipped
remove_listed_file(t, file_name, locked) ==
    IF <<file_name>> \notin t.files THEN Return(t)
    ELSE IF <<file_name>> \in locked THEN Return(t)
    ELSE Return(Without(t, {<<file_name>>}))

RECURSIVE RemoveDirs(_, _, _)
\* the loop over dirs_to_remove (the listed directories are disjoint, so the
\* order of the list does not show in the result)
RemoveDirs(outcomes, names, locked) ==
    IF names = {} THEN outcomes
    ELSE LET n == CHOOSE x \in names : TRUE
         IN  RemoveDirs(UNION { IF o.raised THEN {o}
                                ELSE remove_listed_dir(o.tree, n, locked) :
                                o \in outcomes },
                        names \ {n}, locked)

RECURSIVE RemoveFiles(_, _, _)
\* the loop over files_to_remove
RemoveFiles(outcomes, names, locked) ==
    IF names = {} THEN outcomes
    ELSE LET n == CHOOSE x \in names : TRUE
         IN  RemoveFiles({ IF o.raised THEN o ELSE remove_listed_file(o.tree, n, locked) :
                           o \in outcomes },
                         names \ {n}, locked)

\* project_path.rglob("__pycache__")
PycacheDirs(t) == {p \in t.dirs : p # <<>> /\ p[Len(p)] = "__pycache__"}

RECURSIVE RemovePycache(_, _, _)
\* the loop over the __pycache__ directories: rmtree, an error is skipped
RemovePycache(trees, ps, locked) ==
    IF ps = {} THEN trees
    ELSE LET p == CHOOSE x \in ps : TRUE
         IN  RemovePycache(UNION { IF p \in t.dirs
                                   THEN {o.tree : o \in rmtree(t, p, locked)}
                                   ELSE {t} :
                                   t \in trees },
                           ps \ {p}, locked)

\* the file names of the projects below that match *.pyc and *.pyo
PycNames == {"mod.pyc"}
PyoNames == {"mod.pyo"}

\* the loop over rglob("*.pyc") or rglob("*.pyo"): unlink, an error is skipped
RemoveMatching(t, names, locked) ==
    [t EXCEPT !.files = {q \in @ : ~(q[Len(q)] \in names /\ q \notin locked)}]

\* cleanup_existing_project when the removal of the entries in locked raises
\* OSError/PermissionError: the ways it can end, each the disk it leaves and
\* whether an exception left the function
cleanup_existing_project_outcomes(d, locked) ==
    IF <<>> \notin d.dirs THEN {[disk |-> d, raised |-> FALSE]}
    ELSE LET listed == RemoveFiles(RemoveDirs({Return(Tree(d))}, DirsToRemove, locked),
                                   FilesToRemove, locked)
             swept(t) == { RemoveMatching(RemoveMatching(u, PycNames, locked),
                                          PyoNames, locked) :
                           u \in RemovePycache({t}, PycacheDirs(t), locked) }
         IN  UNION { IF o.raised THEN {[disk |-> FromTree(d, o.tree), raised |-> TRUE]}
                     ELSE {[disk |-> FromTree(d, u), raised |-> FALSE] : u \in swept(o.tree)} :
                     o \in listed }

\* cleanup_existing_project when every removal succeeds
cleanup_existing_project(d) ==
    (CHOOSE o \in cleanup_existing_project_outcomes(d, {}) : TRUE).disk

\* the parameters scaffold_project_structure declares, all keyword-only
ScaffoldParameters ==
    {"base_path", "project_name", "architecture", "auth_type", "db_choice",
     "cache_choice", "architecture_config", "frontend_config"}

\* the keywords create_project passes in its call
CreateProjectKeywords ==
    {"base_path", "project_name", "architecture", "auth_type", "db_choice",
     "cache_choice", "architecture_config", "include_cicd", "include_docker"}

\* target_dir.exists() and any(target_dir.iterdir())
TargetNonEmpty(d) ==
    /\ <<>> \in d.dirs
    /\ d.dirs # {<<>>} \/ d.files # {} \/ d.pyproject.exists

\* a directory that holds something else than a generated project
ForeignDirectory ==
    [EmptyDisk EXCEPT !.dirs = {<<>>, <<"docs">>},
                      !.files = {Render(Path(<<>>, "notes.txt"), <<>>),
                                 Render(Path(<<>>, "README.md"), <<>>)}]

\* what the target directory holds when the command starts
Targets ==
    { EmptyDisk,
      EnsureDirs(EmptyDisk, {<<>>}),
      ForeignDirectory,
      scaffold_project_structure(EmptyDisk, "demo", "rest-apis", "jwt", "sqlite", "redis"),
      scaffold_project_structure(EmptyDisk, "demo", "fullstack", "none", "none", "none") }

InitCreate ==
    /\ \E d \in Targets :
           /\ pyproject = d.pyproject
           /\ dirs = d.dirs
           /\ files = d.files
           /\ config_py = d.config
           /\ main_py = d.main
           /\ origin = d
    /\ pc = "start"
    /\ calls = <<>>
    /\ last = NoOp
    /\ steps = 0

\* if target_dir.exists() and any(target_dir.iterdir())
CheckTarget ==
    /\ pc = "start"
    /\ pc' = IF TargetNonEmpty(Disk) THEN "confirm_overwrite" ELSE "choose"
    /\ UNCHANGED <<pyproject, dirs, files, config_py, main_py, origin, calls, last, steps>>

\* the overwrite confirmation and what follows it
ConfirmOverwrite ==
    \E overwrite \in BOOLEAN :
        /\ pc = "confirm_overwrite"
        /\ IF overwrite
           THEN /\ Becomes(cleanup_existing_project(Disk))
                /\ pc' = "choose"
                /\ last' = [op |-> "cleanup_existing_project", deps |-> <<>>,
                            services |-> <<>>]
           ELSE /\ pc' = "aborted"
                /\ UNCHANGED <<pyproject, dirs, files, config_py, main_py, last>>
        /\ UNCHANGED <<origin, calls, steps>>

\* the prompts for architecture, auth, database and cache
ChooseConfiguration ==
    \E architecture \in Architectures, auth_type \in {"none", "jwt", "oauth"},
       db_choice \in {"none", "postgresql", "sqlite"}, cache_choice \in {"none", "redis"} :
        /\ pc = "choose"
        /\ pc' = "confirm_proceed"
        /\ last' = [op |-> "choose", deps |-> <<architecture>>,
                    services |-> << <<"auth", auth_type>>, <<"db", db_choice>>,
                                    <<"cache", cache_choice>> >>]
        /\ UNCHANGED <<pyproject, dirs, files, config_py, main_py, origin, calls, steps>>

\* "Proceed to create the directory structure?"
ConfirmProceed ==
    \E proceed \in BOOLEAN :
        /\ pc = "confirm_proceed"
        /\ pc' = IF proceed THEN "scaffold" ELSE "aborted"
        /\ UNCHANGED <<pyproject, dirs, files, config_py, main_py, origin, calls, last,
                       steps>>

\* the call scaffold_project_structure(base_path=..., ..., include_docker=...): a
\* keyword the function does not declare raises TypeError before its body runs
CallScaffoldProjectStructure ==
    /\ pc = "scaffold"
    /\ IF CreateProjectKeywords \subseteq ScaffoldParameters
       THEN /\ Becomes(scaffold_project_structure(Disk, "demo", last.deps[1],
                                                  last.services[1][2], last.services[2][2],
                                                  last.services[3][2]))
            /\ pc' = "done"
       ELSE /\ pc' = "raised"
            /\ UNCHANGED <<pyproject, dirs, files, config_py, main_py>>
    /\ UNCHANGED <<origin, calls, last, steps>>

NextCreate ==
    \/ CheckTarget
    \/ ConfirmOverwrite
    \/ ChooseConfiguration
    \/ ConfirmProceed
    \/ CallScaffoldProjectStructure

SpecCreate == InitCreate /\ [][NextCreate]_vars

-----------------------------------------------------------------------------
(* cleanup_existing_project on a directory some of whose entries cannot be *)
(* removed                                                                 *)

\* a project that was run and tested, next to files of the user
UsedProject ==
    [dirs |-> {<<>>, <<"app">>, <<"app", "core">>, <<"app", "__pycache__">>, <<"tests">>,
               <<"docs">>, <<"docs", "__pycache__">>},
     files |-> {Render(Path(<<"app">>, "__init__.py"), <<>>),
                Render(Path(<<"app", "__pycache__">>, "mod.pyc"), <<>>),
                Render(Path(<<"tests">>, "conftest.py"), <<>>),
                Render(Path(<<"docs">>, "notes.txt"), <<>>),
                Render(Path(<<"docs", "__pycache__">>, "mod.pyc"), <<>>),
                Render(Path(<<"docs">>, "mod.pyo"), <<>>),
                Render(Path(<<>>, "README.md"), <<>>),
                Render(Path(<<>>, ".gitignore"), <<>>)},
     config |-> File(ConfigTemplate),
     main |-> File(MainTemplate("demo")),
     pyproject |-> File(PyprojectTemplate("demo"))]

CleanupTargets == {EmptyDisk, ForeignDirectory, UsedProject}

\* the entries whose removal may raise
LockCandidates ==
    {<<"app", "__pycache__", "mod.pyc">>, <<"app", "core">>, <<"tests">>, <<"README.md">>,
     PyprojectPath, <<"docs", "__pycache__">>, <<"docs", "mod.pyo">>}

InitCleanup ==
    /\ \E d \in CleanupTargets :
           /\ pyproject = d.pyproject
           /\ dirs = d.dirs
           /\ files = d.files
           /\ config_py = d.config
           /\ main_py = d.main
           /\ origin = d
    /\ pc = "done"
    /\ calls = <<>>
    /\ last = NoOp
    /\ steps = 0

CleanupExistingProject ==
    \E locked \in SUBSET (LockCandidates \cap Entries(Tree(Disk))) :
        \E o \in cleanup_existing_project_outcomes(Disk, locked) :
            /\ steps < MaxOps
            /\ steps' = steps + 1
            /\ last' = [op |-> "cleanup_existing_project", deps |-> locked,
                        services |-> <<>>]
            /\ Becomes(o.disk)
            /\ pc' = IF o.raised THEN "raised" ELSE "done"
            /\ UNCHANGED <<origin, calls>>

NextCleanup == CleanupExistingProject

SpecCleanup == InitCleanup /\ [][NextCleanup]_vars

-----------------------------------------------------------------------------
(* The ensure_*_imports_in_main functions on the app/main.py files a       *)
(* project can hold                                                        *)

\* main.py whose startup function imports a module when it runs
MainWithLocalImport ==
    SubSeq(MainTemplate("demo"), 1, 4)
        \o << Ln("", "def", <<"startup", "():">>),
              Ln("    ", "import", <<"logging">>),
              Ln("    ", "logging.basicConfig(", <<>>),
              Empty >>

\* main.py that imports the cache package as a module
MainWithModuleImport ==
    <<Import(AppCache)>> \o MainTemplate("demo")

\* main.py without any import
MainWithoutImports == << Ln("", "app = None", <<>>), Empty >>

MainLayouts ==
    {MainTemplate("demo"), MainWithLocalImport, MainWithModuleImport, MainWithoutImports}

InitMain ==
    /\ main_py \in {File(ls) : ls \in MainLayouts} \cup {NoFile}
    /\ pyproject = NoFile
    /\ dirs = {<<>>, <<"app">>}
    /\ files = NoFiles
    /\ config_py = NoFile
    /\ origin = EmptyDisk
    /\ pc = "done"
    /\ calls = <<>>
    /\ last = NoOp
    /\ steps = 0

\* the functions below touch app/main.py only
MainOnly == UNCHANGED <<pyproject, dirs, files, config_py, origin, pc, calls>>

EnsureDatabaseImportsInMain ==
    \E db_choice \in {"postgresql", "none"} :
        /\ Step("ensure_database_imports_in_main", <<>>, << <<"db", db_choice>> >>)
        /\ main_py' = ensure_database_imports_in_main(main_py, db_choice)
        /\ MainOnly

EnsureCacheImportsInMain ==
    \E cache_choice \in {"redis", "none"} :
        /\ Step("ensure_cache_imports_in_main", <<>>, << <<"cache", cache_choice>> >>)
        /\ main_py' = ensure_cache_imports_in_main(main_py, cache_choice)
        /\ MainOnly

EnsureAuthImportsInMain ==
    \E auth_type \in {"jwt", "none"} :
        /\ Step("ensure_auth_imports_in_main", <<>>, << <<"auth", auth_type>> >>)
        /\ main_py' = ensure_auth_imports_in_main(main_py, auth_type)
        /\ MainOnly

CleanupDatabaseImports ==
    /\ Step("cleanup_database_imports", <<>>, << <<"db", "">> >>)
    /\ main_py' = cleanup_database_imports(main_py)
    /\ MainOnly

CleanupCacheImports ==
    /\ Step("cleanup_cache_imports", <<>>, << <<"cache", "">> >>)
    /\ main_py' = cleanup_cache_imports(main_py)
    /\ MainOnly

CleanupAuthImports ==
    /\ Step("cleanup_auth_imports", <<>>, << <<"auth", "">> >>)
    /\ main_py' = cleanup_auth_imports(main_py)
    /\ MainOnly

NextMain ==
    \/ EnsureDatabaseImportsInMain
    \/ EnsureCacheImportsInMain
    \/ EnsureAuthImportsInMain
    \/ CleanupDatabaseImports
    \/ CleanupCacheImports
    \/ CleanupAuthImports

SpecMain == InitMain /\ [][NextMain]_vars

-----------------------------------------------------------------------------
(* Domains: scaffold_domain and the add-domain command.  A domain name is   *)
(* the sequence of its characters where it is validated and a string where *)
(* it names a directory.                                                   *)

LowercaseLetters == {"a", "d", "e", "f", "i", "m", "o", "r", "s", "t", "u"}
Digits == {"2"}
UpperToLower == [U |-> "u", O |-> "o"]

\* len(name) <= 50
MaxNameLen == 50

\* str.lower()
Lower(name) ==
    [k \in 1..Len(name) |->
        IF name[k] \in DOMAIN UpperToLower THEN UpperToLower[name[k]] ELSE name[k]]

\* _is_valid_domain_name: re.match(r'^[a-z][a-z0-9_]*$', name) and len(name) <= 50
is_valid_domain_name(name) ==
    /\ Len(name) >= 1
    /\ name[1] \in LowercaseLetters
    /\ \A k \in 1..Len(name) : name[k] \in LowercaseLetters \cup Digits \cup {"_"}
    /\ Len(name) <= MaxNameLen

RECURSIVE Join(_)
\* the string of a sequence of characters
Join(name) == IF name = <<>> THEN "" ELSE Head(name) \o Join(Tail(name))

\* domain_generator._ensure_dir: path.mkdir(parents=True, exist_ok=True)
MakeDirs(d, dir) == [d EXCEPT !.dirs = @ \cup {SubSeq(dir, 1, k) : k \in 0..Len(dir)}]

DomainFiles ==
    <<"__init__.py", "models.py", "schemas.py", "repositories.py", "services.py",
      "routes.py", "dependencies.py", "exceptions.py">>

TestFiles ==
    <<"__init__.py", "test_models.py", "test_repositories.py", "test_services.py",
      "test_routes.py">>

\* project_path / "app" / "domains" / domain_name
DomainPath(domain_name) == <<"app", "domains", domain_name>>

\* project_path / "tests" / "domains" / f"test_{domain_name}"
TestDomainPath(domain_name) == <<"tests", "domains", "test_" \o domain_name>>

\* dest_path.exists()
FileExists(d, path) == \E f \in d.files : f[1] = path

\* the loop below when it stops one file early
WriteDomainFilesButLast(d, dir, names, force, context) ==
    RenderSet(d, {Path(dir, names[k]) :
                      k \in {j \in 1..(Len(names) - 1) :
                                 force \/ ~FileExists(d, Path(dir, names[j]))}},
              context)

\* the loop over a list of file names: a file that exists is skipped unless force
WriteDomainFiles(d, dir, names, force, context) ==
    RenderSet(d, {Path(dir, names[k]) :
                      k \in {j \in 1..Len(names) :
                                 force \/ ~FileExists(d, Path(dir, names[j]))}},
              context)

\* project_path.name
ProjectDirName == "demo"

\* "<provider>://" in config_content: the URL the DATABASE_URL line holds
ConfigHasScheme(config, provider) ==
    \E i \in 1..Len(config.lines) :
        /\ config.lines[i].head = "DATABASE_URL:"
        /\ config.lines[i].rest # <<>>
        /\ config.lines[i].rest[1] = provider

\* "<word>" in config_content
ConfigMentions(config, word) ==
    \E i \in 1..Len(config.lines) : \E k \in 1..Len(config.lines[i].rest) :
        config.lines[i].rest[k] = word

\* the if/elif chain over config_content; "none" when no branch is taken
ConfigProvider(config) ==
    IF ~config.exists THEN "none"
    ELSE IF ConfigHasScheme(config, "postgresql") \/ ConfigMentions(config, "psycopg2")
    THEN "postgresql"
    ELSE IF ConfigHasScheme(config, "mysql") \/ ConfigMentions(config, "pymysql")
    THEN "mysql"
    ELSE IF ConfigHasScheme(config, "sqlite") THEN "sqlite"
    ELSE IF ConfigHasScheme(config, "mongodb") \/ ConfigMentions(config, "motor")
    THEN "mongodb"
    ELSE IF ConfigHasScheme(config, "mssql") \/ ConfigMentions(config, "pyodbc")
    THEN "mssql"
    ELSE "none"

\* the provider names a file of app/db mentions: the one it was rendered for
DbFileWords(f) == IF Len(f[2]) = 2 THEN {f[2][1]} ELSE {}

\* the if/elif chain over the content of one file of app/db
FileProvider(f) ==
    IF "postgresql" \in DbFileWords(f) THEN "postgresql"
    ELSE IF "mysql" \in DbFileWords(f) THEN "mysql"
    ELSE IF "mongodb" \in DbFileWords(f) \/ "motor" \in DbFileWords(f) THEN "mongodb"
    ELSE IF "mssql" \in DbFileWords(f) \/ "pyodbc" \in DbFileWords(f) THEN "mssql"
    ELSE "none"

\* the providers the loop over db_path.glob("*.py") can stop at: the files come
\* in the order of the file system, and the first one that names a provider wins
DbDirProviders(d) ==
    IF DbDir \in d.dirs
    THEN {FileProvider(f) : f \in {g \in d.files : g[1][1] = DbDir}} \ {"none"}
    ELSE {}

\* a file the user has written or edited
Edited(path) == Render(path, <<"edited">>)

\* "sqlalchemy" in model_content.lower(): the rendered models.py uses the ORM
ModelUsesOrm(d, domain_name) ==
    \E f \in d.files : f[1] = Path(DomainPath(domain_name), "models.py") /\ f[2] # <<"edited">>

Call(service_type, service_provider) ==
    [op |-> "sync_service_dependencies", services |-> << <<service_type, service_provider>> >>]

RECURSIVE SyncAll(_, _)
\* the sync_service_dependencies calls of a list, one after the other
SyncAll(pp, cs) ==
    IF cs = <<>> THEN pp
    ELSE SyncAll(sync_service_dependencies(pp, Head(cs).services[1][1],
                                           Head(cs).services[1][2]),
                 Tail(cs))

\* _sync_domain_dependencies when the sqlite default does not ask whether a
\* database was detected
sync_domain_dependencies_defaulting(d, domain_name) ==
    LET from_config == ConfigProvider(d.config)
        detected == IF from_config # "none" THEN {from_config}
                    ELSE IF DbDirProviders(d) # {} THEN DbDirProviders(d)
                    ELSE {"none"}
    IN  { LET db == (IF provider # "none" THEN <<Call("db", provider)>> ELSE <<>>)
                    \o (IF ModelUsesOrm(d, domain_name) THEN <<Call("db", "sqlite")>>
                        ELSE <<>>)
              cs == db \o <<Call("testing", "pytest"), Call("validation", "pydantic")>>
          IN  [disk |-> [d EXCEPT !.pyproject = SyncAll(@, cs)], calls |-> cs] :
          provider \in detected }

\* _sync_domain_dependencies: the ways it can end, each the disk it leaves and
\* the calls of the dependency manager it made
sync_domain_dependencies(d, domain_name) ==
    LET from_config == ConfigProvider(d.config)
        detected == IF from_config # "none" THEN {from_config}
                    ELSE IF DbDirProviders(d) # {} THEN DbDirProviders(d)
                    ELSE {"none"}
    IN  { LET db == IF provider # "none" THEN <<Call("db", provider)>>
                    ELSE IF ModelUsesOrm(d, domain_name) THEN <<Call("db", "sqlite")>>
                    ELSE <<>>
              cs == db \o <<Call("testing", "pytest"), Call("validation", "pydantic")>>
          IN  [disk |-> [d EXCEPT !.pyproject = SyncAll(@, cs)], calls |-> cs] :
          provider \in detected }

\* scaffold_domain without the existence test of its two loops
scaffold_domain_overwriting(d, domain_name, with_tests, force) ==
    LET context == <<domain_name, ProjectDirName>>
        d1 == WriteDomainFiles(MakeDirs(d, DomainPath(domain_name)),
                               DomainPath(domain_name), DomainFiles, TRUE, context)
        d2 == IF with_tests
              THEN WriteDomainFiles(MakeDirs(d1, TestDomainPath(domain_name)),
                                    TestDomainPath(domain_name), TestFiles, TRUE, context)
              ELSE d1
    IN  sync_domain_dependencies(d2, domain_name)

\* scaffold_domain
scaffold_domain(d, domain_name, with_tests, force) ==
    LET context == <<domain_name, ProjectDirName>>
        d1 == WriteDomainFiles(MakeDirs(d, DomainPath(domain_name)),
                               DomainPath(domain_name), DomainFiles, force, context)
        d2 == IF with_tests
              THEN WriteDomainFiles(MakeDirs(d1, TestDomainPath(domain_name)),
                                    TestDomainPath(domain_name), TestFiles, force, context)
              ELSE d1
    IN  sync_domain_dependencies(d2, domain_name)

\* the names asked for on the command line
NameUsers == <<"u", "s", "e", "r", "s">>
NameOrderItems == <<"o", "r", "d", "e", "r", "_", "i", "t", "e", "m", "s">>
NameCapital == <<"U", "s", "e", "r", "s">>
NameDigit == <<"2", "f", "a", "s", "t">>
NameLong == [k \in 1..(MaxNameLen + 1) |-> "a"]
NamePadded == <<" ", "u", "s", "e", "r", "s">>
DomainNames ==
    {NameUsers, NameOrderItems, NameCapital, NameDigit, NameLong, NamePadded, <<>>}

\* a project with a database whose users domain the user has edited, next to an
\* orders domain
ProjectWithDomains ==
    LET p == add_service_to_project(
                 scaffold_project_structure(EmptyDisk, "demo", "rest-apis", "none", "none",
                                            "none"),
                 "db", "mysql")
        q == MakeDirs(MakeDirs(MakeDirs(p, DomainPath("users")), DomainPath("orders")),
                      TestDomainPath("users"))
    IN  [q EXCEPT !.files = @ \cup { Edited(Path(DomainPath("users"), "models.py")),
                                     Edited(Path(DomainPath("users"), "routes.py")),
                                     Edited(Path(DomainPath("orders"), "models.py")),
                                     Edited(Path(TestDomainPath("users"),
                                                 "test_models.py")) }]

\* a project whose app/db was generated for one provider and then for another,
\* and whose config.py holds no database settings
ProjectWithTwoClients ==
    generate_database_setup(
        generate_database_setup(
            scaffold_project_structure(EmptyDisk, "demo", "rest-apis", "none", "none",
                                       "none"),
            "postgresql", "demo"),
        "mongodb", "demo")

DomainTargets ==
    { scaffold_project_structure(EmptyDisk, "demo", "rest-apis", "none", "none", "none"),
      scaffold_project_structure(EmptyDisk, "demo", "rest-apis", "jwt", "sqlite", "redis"),
      ProjectWithDomains,
      ProjectWithTwoClients,
      ForeignDirectory }

InitDomain ==
    /\ \E d \in DomainTargets :
           /\ pyproject = d.pyproject
           /\ dirs = d.dirs
           /\ files = d.files
           /\ config_py = d.config
           /\ main_py = d.main
           /\ origin = d
    /\ pc = "idle"
    /\ calls = <<>>
    /\ last = NoOp
    /\ steps = 0

\* how a command can end
Ended ==
    {"invalid_project", "invalid_name", "invalid_combination", "aborted", "failed",
     "created", "added"}

\* the exit code of the process: typer.Exit(code=1) everywhere but on success
ExitCode == IF pc \in {"created", "added"} THEN 0 ELSE 1

\* fastkit add-domain <name> [--no-tests] [--force]
InvokeAddDomain ==
    \E domain_name \in DomainNames, with_tests \in BOOLEAN, force \in BOOLEAN :
        /\ pc \in Ended \cup {"idle"}
        /\ steps < MaxOps
        /\ steps' = steps + 1
        /\ pc' = "validate"
        /\ last' = [op |-> "add_domain", deps |-> <<domain_name, with_tests, force>>,
                    services |-> <<>>]
        /\ origin' = Disk
        /\ calls' = <<>>
        /\ UNCHANGED <<pyproject, dirs, files, config_py, main_py>>

\* the checks of add_domain up to the first prompt
ValidateAddDomain ==
    /\ pc = "validate"
    /\ last.op = "add_domain"
    /\ LET domain_name == Strip(Lower(last.deps[1]))
       IN  /\ pc' = IF ~is_valid_fastkit_project(Disk) THEN "invalid_project"
                    ELSE IF ~is_valid_domain_name(domain_name) THEN "invalid_name"
                    ELSE IF DomainPath(Join(domain_name)) \in dirs /\ ~last.deps[3]
                    THEN "confirm_overwrite"
                    ELSE "confirm_proceed"
           /\ last' = [last EXCEPT !.services = <<domain_name>>]
    /\ UNCHANGED <<pyproject, dirs, files, config_py, main_py, origin, calls, steps>>

\* "Do you want to overwrite it?"; the answer is kept after the three arguments
ConfirmOverwriteDomain ==
    \E overwrite \in BOOLEAN :
        /\ pc = "confirm_overwrite"
        /\ last.op = "add_domain"
        /\ pc' = IF overwrite THEN "confirm_proceed" ELSE "aborted"
        /\ last' = [last EXCEPT !.deps = Append(@, overwrite)]
        /\ UNCHANGED <<pyproject, dirs, files, config_py, main_py, origin, calls, steps>>

\* "Proceed to create the domain?"
ConfirmProceedDomain ==
    \E proceed \in BOOLEAN :
        /\ pc = "confirm_proceed"
        /\ last.op = "add_domain"
        /\ pc' = IF proceed THEN "scaffold" ELSE "aborted"
        /\ UNCHANGED <<pyproject, dirs, files, config_py, main_py, origin, calls, last,
                       steps>>

\* the call scaffold_domain(project_path, domain_name, with_tests, force)
ScaffoldDomain ==
    /\ pc = "scaffold"
    /\ last.op = "add_domain"
    /\ \E o \in scaffold_domain(Disk, Join(last.services[1]), last.deps[2],
                                 last.deps[3]) :
           /\ Becomes(o.disk)
           /\ calls' = o.calls
    /\ pc' = "created"
    /\ UNCHANGED <<origin, last, steps>>

NextDomain ==
    \/ InvokeAddDomain
    \/ ValidateAddDomain
    \/ ConfirmOverwriteDomain
    \/ ConfirmProceedDomain
    \/ ScaffoldDomain

SpecDomain == InitDomain /\ [][NextDomain]_vars

-----------------------------------------------------------------------------
(* The add-service command, next to add-domain                             *)

\* valid_combinations of _is_valid_service_combination
ValidCombinations ==
    [db |-> {"postgresql", "mysql", "sqlite", "mongodb", "mssql"},
     cache |-> {"redis", "memcached", "in-memory"},
     auth |-> {"jwt", "oauth"},
     jobs |-> {"celery", "rq", "apscheduler", "dramatiq", "arq"}]

is_valid_service_combination(service_type, service_provider) ==
    /\ service_type \in DOMAIN ValidCombinations
    /\ service_provider \in ValidCombinations[service_type]

\* _service_exists: app/<service_type> exists, for the four service types
service_exists(d, service_type) ==
    /\ service_type \in {"db", "cache", "auth", "jobs"}
    /\ <<"app", service_type>> \in d.dirs

\* the service type and provider asked for on the command line: "dynamodb" is
\* a provider the info panel describes, "queue" is no service type
AddServiceInputs ==
    { <<"db", "mysql">>, <<"cache", "redis">>, <<"cache", "memcached">>,
      <<"auth", "jwt">>, <<"jobs", "celery">>, <<"cache", "dynamodb">>,
      <<"queue", "celery">> }

CommandTargets ==
    { scaffold_project_structure(EmptyDisk, "demo", "rest-apis", "none", "none", "none"),
      ProjectWithDomains,
      [EmptyDisk EXCEPT !.dirs = {<<>>}, !.pyproject = File(<<ProjectTable, NameField>>)],
      ForeignDirectory }

InitCommands ==
    /\ \E d \in CommandTargets :
           /\ pyproject = d.pyproject
           /\ dirs = d.dirs
           /\ files = d.files
           /\ config_py = d.config
           /\ main_py = d.main
           /\ origin = d
    /\ pc = "idle"
    /\ calls = <<>>
    /\ last = NoOp
    /\ steps = 0

\* fastkit add-service <type> <provider> [--force]
InvokeAddService ==
    \E s \in AddServiceInputs, force \in BOOLEAN :
        /\ pc \in Ended \cup {"idle"}
        /\ steps < MaxOps
        /\ steps' = steps + 1
        /\ pc' = "validate"
        /\ last' = [op |-> "add_service", deps |-> <<s[1], s[2], force>>,
                    services |-> <<s>>]
        /\ origin' = Disk
        /\ calls' = <<>>
        /\ UNCHANGED <<pyproject, dirs, files, config_py, main_py>>

\* the checks of add_service without the test of _service_exists
ValidateAddServiceUnasked ==
    /\ pc = "validate"
    /\ last.op = "add_service"
    /\ pc' = IF ~is_valid_fastkit_project(Disk) THEN "invalid_project"
             ELSE IF ~is_valid_service_combination(last.deps[1], last.deps[2])
             THEN "invalid_combination"
             ELSE "confirm_proceed"
    /\ UNCHANGED <<pyproject, dirs, files, config_py, main_py, origin, calls, last,
                   steps>>

\* the checks of add_service up to the first prompt
ValidateAddService ==
    /\ pc = "validate"
    /\ last.op = "add_service"
    /\ pc' = IF ~is_valid_fastkit_project(Disk) THEN "invalid_project"
             ELSE IF ~is_valid_service_combination(last.deps[1], last.deps[2])
             THEN "invalid_combination"
             ELSE IF service_exists(Disk, last.deps[1]) /\ ~last.deps[3]
             THEN "confirm_overwrite"
             ELSE "confirm_proceed"
    /\ UNCHANGED <<pyproject, dirs, files, config_py, main_py, origin, calls, last,
                   steps>>

\* "Do you want to overwrite it?"
ConfirmOverwriteService ==
    \E overwrite \in BOOLEAN :
        /\ pc = "confirm_overwrite"
        /\ last.op = "add_service"
        /\ pc' = IF overwrite THEN "confirm_proceed" ELSE "aborted"
        /\ last' = [last EXCEPT !.deps = Append(@, overwrite)]
        /\ UNCHANGED <<pyproject, dirs, files, config_py, main_py, origin, calls, steps>>

\* "Proceed to add the service?"
ConfirmProceedService ==
    \E proceed \in BOOLEAN :
        /\ pc = "confirm_proceed"
        /\ last.op = "add_service"
        /\ pc' = IF proceed THEN "add" ELSE "aborted"
        /\ UNCHANGED <<pyproject, dirs, files, config_py, main_py, origin, calls, last,
                       steps>>

\* the call add_service_to_project(project_path, service_type, service_provider, force)
AddService ==
    /\ pc = "add"
    /\ last.op = "add_service"
    /\ Becomes(add_service_to_project(Disk, last.deps[1], last.deps[2]))
    /\ calls' = << [op |-> "sync_service_dependencies", services |-> last.services] >>
    /\ pc' = "added"
    /\ UNCHANGED <<origin, last, steps>>

NextCommands ==
    \/ InvokeAddDomain
    \/ ValidateAddDomain
    \/ ConfirmOverwriteDomain
    \/ ConfirmProceedDomain
    \/ ScaffoldDomain
    \/ InvokeAddService
    \/ ValidateAddService
    \/ ConfirmOverwriteService
    \/ ConfirmProceedService
    \/ AddService

SpecCommands == InitCommands /\ [][NextCommands]_vars

-----------------------------------------------------------------------------
(* The three commands that ask before they overwrite                       *)

\* the run in progress is one of create-project
CreateRun == last.op \notin {"add_domain", "add_service"}

CreateCheckTarget == CreateRun /\ CheckTarget
CreateConfirmOverwrite == CreateRun /\ ConfirmOverwrite
CreateChooseConfiguration == CreateRun /\ ChooseConfiguration
CreateConfirmProceed == CreateRun /\ ConfirmProceed
CreateCallScaffoldProjectStructure == CreateRun /\ CallScaffoldProjectStructure

\* add-domain and add-service are run in the directory a create-project run left
InitConfirm == InitCreate

NextConfirm ==
    \/ CreateCheckTarget
    \/ CreateConfirmOverwrite
    \/ CreateChooseConfiguration
    \/ CreateConfirmProceed
    \/ CreateCallScaffoldProjectStructure
    \/ InvokeAddDomain
    \/ ValidateAddDomain
    \/ ConfirmOverwriteDomain
    \/ ConfirmProceedDomain
    \/ ScaffoldDomain
    \/ InvokeAddService
    \/ ValidateAddService
    \/ ConfirmOverwriteService
    \/ ConfirmProceedService
    \/ AddService

SpecConfirm == InitConfirm /\ [][NextConfirm]_vars

-----------------------------------------------------------------------------
(* What the claims speak of: the dependency array of a manifest            *)

\* line i lies after a 'dependencies = [' line with no ']' line in between
InArray(lines, i) ==
    \E h \in 1..(i - 1) :
        /\ lines[h].kind = "header"
        /\ \A k \in (h + 1)..(i - 1) : lines[k].kind # "close"

\* the positions of the array's entries, with or without a trailing comma
ArrayEntries(lines) ==
    {i \in 1..Len(lines) : lines[i].kind = "entry" /\ InArray(lines, i)}

\* the package name of the entry at line i: the text before the first of < > = !
NameAt(lines, i) == PackageName(lines[i].dep)

NamesOf(deps) == {PackageName(deps[k]) : k \in 1..Len(deps)}

HasEntryFor(lines, name) ==
    \E i \in ArrayEntries(lines) : NameAt(lines, i) = name

\* the array cannot be fully parsed: no 'dependencies = [' line, or no ']' line after it
Unparseable(lines) ==
    \/ \A h \in 1..Len(lines) : lines[h].kind # "header"
    \/ \E h \in 1..Len(lines) :
           /\ lines[h].kind = "header"
           /\ \A k \in (h + 1)..Len(lines) : lines[k].kind # "close"

\* C1: after any sequence of add_dependencies, sync_service_dependencies and
\* sync_multiple_services calls on a manifest that started without duplicates,
\* each package name appears at most once in the dependency array.
C1_PackageNamesUnique ==
    \A i, j \in ArrayEntries(pyproject.lines) :
        i # j => NameAt(pyproject.lines, i) # NameAt(pyproject.lines, j)

\* C7: add_dependencies with specifiers whose package names all have an entry in
\* the manifest already leaves the manifest unchanged, whatever their versions.
C7_FirstWriteWins ==
    [][ ( /\ last'.op = "add_dependencies"
          /\ pyproject.exists
          /\ \A n \in NamesOf(last'.deps) : HasEntryFor(pyproject.lines, n) )
        => pyproject' = pyproject ]_vars

\* the lines of the file without the array entries whose package name is in names
WithoutEntries(lines, names) ==
    LET keep == {i \in 1..Len(lines) :
                     ~(i \in ArrayEntries(lines) /\ NameAt(lines, i) \in names)}
        RECURSIVE Pick(_)
        Pick(i) == IF i > Len(lines) THEN <<>>
                   ELSE IF i \in keep THEN <<lines[i]>> \o Pick(i + 1)
                   ELSE Pick(i + 1)
    IN  Pick(1)

\* C8: remove_dependencies(L) deletes every array entry whose package name is that
\* of an element of L, whatever its version and position, and leaves every other
\* line in place and in order.
C8_RemoveByName ==
    [][ (last'.op = "remove_dependencies" /\ pyproject.exists)
        => pyproject'.lines = WithoutEntries(pyproject.lines, NamesOf(last'.deps)) ]_vars

\* C9: a manifest whose dependency array cannot be fully parsed is left unchanged
\* by add_dependencies, remove_dependencies and cleanup_dependencies_from_pyproject.
C9_UnparseableUntouched ==
    [][ ( /\ last'.op \in {"add_dependencies", "remove_dependencies",
                           "cleanup_dependencies_from_pyproject"}
          /\ pyproject.exists
          /\ Unparseable(pyproject.lines) )
        => pyproject' = pyproject ]_vars

-----------------------------------------------------------------------------
(* What the claims speak of: the files of a service directory              *)

\* the names of the files in a directory
Listing(d, dir) == {f[1][2] : f \in {g \in d.files : g[1][1] = dir}}

ServiceDir(service_type) ==
    IF service_type = "db" THEN DbDir
    ELSE IF service_type = "cache" THEN CacheDir
    ELSE AuthDir

Providers(service_type) ==
    IF service_type = "db" THEN DOMAIN DbClientFiles
    ELSE IF service_type = "cache" THEN DOMAIN CacheClientFiles
    ELSE DOMAIN AuthProviderFiles

\* the type's generate call with its default arguments
Generate(d, service_type, provider, project_name) ==
    IF service_type = "db" THEN generate_database_setup(d, provider, project_name)
    ELSE IF service_type = "cache" THEN generate_cache_setup(d, provider, project_name, TRUE)
    ELSE generate_auth_setup(d, provider, project_name)

GenerateOps == {"generate_database_setup", "generate_cache_setup", "generate_auth_setup"}

\* the files of the project outside a directory
Outside(fs, dir) == {f \in fs : f[1][1] # dir}

\* C2: in a project in which a provider P1 of a service type was just generated,
\* cleanup_all_service_files for the type followed by the type's generate call for
\* any provider P2 leaves the service directory with the same files as generating
\* P2 into the project as it was created, where the service was never generated.
C2_CleanupGenerateRoundTrip ==
    ( /\ last.op \in GenerateOps
      /\ last.services[1][2] \in Providers(last.services[1][1]) )
    => LET t == last.services[1][1]
           n == ProjectName(pyproject.lines)
       IN  \A P2 \in Providers(t) :
               Listing(Generate(cleanup_all_service_files(Disk, t), t, P2, n),
                       ServiceDir(t))
               = Listing(Generate(origin, t, P2, n), ServiceDir(t))

\* C3: a call of generate_database_setup, generate_cache_setup or
\* generate_auth_setup changes no file outside its own service directory:
\* app/core/config.py, app/main.py, pyproject.toml and every rendered file
\* elsewhere are the same after the call as before.
C3_GenerateIsolation ==
    [][ last'.op \in GenerateOps
        => /\ config_py' = config_py
           /\ main_py' = main_py
           /\ pyproject' = pyproject
           /\ Outside(files', ServiceDir(last'.services[1][1]))
              = Outside(files, ServiceDir(last'.services[1][1])) ]_vars

\* how many lines of the text have this head
Count(lines, head) == Cardinality({i \in 1..Len(lines) : lines[i].head = head})

SentinelOf(op) ==
    IF op = "update_database_configuration" THEN DbSentinel
    ELSE IF op = "update_cache_configuration" THEN CacheSentinel
    ELSE AuthSentinel

UpdateOps ==
    {"update_database_configuration", "update_cache_configuration",
     "update_auth_configuration"}

\* C4: app/core/config.py holds each of the three section sentinels at most once
\* at any time, and an update_*_configuration call for a section whose sentinel is
\* present leaves config.py as it is.
C4_SectionIdempotence ==
    /\ [](\A sentinel \in {DbSentinel, CacheSentinel, AuthSentinel} :
              Count(config_py.lines, sentinel) <= 1)
    /\ [][ (last'.op \in UpdateOps /\ HasHead(config_py.lines, SentinelOf(last'.op)))
           => config_py' = config_py ]_vars

\* a second update of the cache section, for another provider than the one whose
\* block is there, has run and the block is still the first provider's
C4_SecondUpdateSeen ==
    /\ last.op = "update_cache_configuration"
    /\ last.services[1][2] = "dynamodb"
    /\ Count(config_py.lines, CacheSentinel) = 1
    /\ HasHead(config_py.lines, "REDIS_URL:")
    /\ ~HasHead(config_py.lines, "AWS_REGION:")

\* the selected providers of a selection
Selected(services) ==
    {services[k] : k \in {j \in 1..Len(services) : services[j][2] # "none"}}

\* C5: once scaffold_project_structure has created the structure, the dependency
\* manager's sync operation has been called exactly once, and pyproject.toml has
\* an entry for every dependency of every selected auth, db and cache provider.
C5_ScaffoldSyncsOnce ==
    last.op = "scaffold_project_structure"
    => /\ Len(calls) = 1
       /\ \A s \in Selected(last.services) :
              \A n \in NamesOf(get_dependencies_for_service(s[1], s[2])) :
                  HasEntryFor(pyproject.lines, n)

\* a top-level file of the project exists
TopLevelFile(name) == \E f \in files : f[1] = Path(<<>>, name)

\* C6: a create-project run that got past both confirmations ends with the call
\* of scaffold_project_structure completed and pyproject.toml, README.md and
\* .gitignore written in the target directory.
C6_CreateRunCompletes ==
    pc \in {"done", "raised"}
    => /\ pc = "done"
       /\ pyproject.exists
       /\ TopLevelFile("README.md")
       /\ TopLevelFile(".gitignore")

\* C10: after cleanup_cache_files, app/cache holds no provider-specific client
\* file, whichever cache provider was generated before.
C10_NoCacheClientLeft ==
    last.op = "cleanup_cache_files"
    => \A provider \in DOMAIN CacheClientFiles :
           CacheClientFiles[provider] \notin Listing(Disk, CacheDir)

\* the package names listed under any provider of a category of DEPENDENCIES
CategoryPackages(category) ==
    UNION {NamesOf(DEPENDENCIES[category][provider]) :
               provider \in DOMAIN DEPENDENCIES[category]}

\* C11: after cleanup_dependencies_from_pyproject(project, category), for
\* category in db, cache, auth, jobs, the dependency array holds no entry for
\* any package listed under any provider of that category in DEPENDENCIES.
C11_CleanupRemovesCategory ==
    last.op = "cleanup_dependencies_from_pyproject"
    => \A name \in CategoryPackages(last.services[1][1]) :
           ~HasEntryFor(pyproject.lines, name)

\* C12: cleanup_existing_project returns without raising whichever removals
\* raise OSError/PermissionError, and afterwards a listed directory is still
\* there only if the removal of it or of an entry below it raises, and a listed
\* file only if its own removal raises.
C12_BestEffortCleanup ==
    last.op = "cleanup_existing_project"
    => /\ pc = "done"
       /\ \A dir_name \in DirsToRemove :
              <<dir_name>> \in dirs => Blocked(Tree(Disk), <<dir_name>>, last.deps)
       /\ \A file_name \in FilesToRemove :
              <<file_name>> \in Tree(Disk).files => <<file_name>> \in last.deps

\* a cleanup that could remove neither tests/ nor README.md and removed app/
\* and pyproject.toml
C12_PartialCleanupSeen ==
    /\ last.op = "cleanup_existing_project"
    /\ {<<"tests">>, <<"README.md">>} \subseteq last.deps
    /\ <<"tests">> \in dirs
    /\ <<"README.md">> \in Tree(Disk).files
    /\ <<"app">> \notin dirs
    /\ ~pyproject.exists
    /\ origin = UsedProject

\* C13: generate_database_setup, generate_cache_setup and generate_auth_setup
\* called with the provider 'none' change no file and no directory of the
\* project, whatever was generated before.
C13_NoneIsNoOp ==
    [][ (last'.op \in GenerateOps /\ last'.services[1][2] = "none")
        => UNCHANGED <<pyproject, dirs, files, config_py, main_py>> ]_vars

EnsureOps ==
    {"ensure_database_imports_in_main", "ensure_cache_imports_in_main",
     "ensure_auth_imports_in_main"}

\* the service package an ensure call is about, and the line it writes
PackageOf(service_type) ==
    IF service_type = "db" THEN AppDb
    ELSE IF service_type = "cache" THEN AppCache
    ELSE AppAuth

ImportLineOf(service_type) ==
    IF service_type = "db" THEN FromImport(<<"app", ".db", ".session">>, "db_manager")
    ELSE IF service_type = "cache" THEN FromImport(AppCache, "cache_client")
    ELSE FromImport(AppAuth, "auth_service")

\* some import or from line of the text names the package
ImportsPackage(lines, pkg) ==
    \E i \in 1..Len(lines) : IsImportLine(lines[i]) /\ IsPrefix(pkg, lines[i].rest)

\* the last unindented import or from line, 0 when there is none
LastTopLevelImport(lines) ==
    IF \E i \in 1..Len(lines) : IsImportLine(lines[i]) /\ lines[i].indent = ""
    THEN CHOOSE i \in 1..Len(lines) :
             /\ IsImportLine(lines[i]) /\ lines[i].indent = ""
             /\ \A j \in (i + 1)..Len(lines) :
                    ~(IsImportLine(lines[j]) /\ lines[j].indent = "")
    ELSE 0

\* C14: an ensure_*_imports_in_main call for a provider leaves main.py as it is
\* when main.py already imports the service package (so a second call changes
\* nothing); otherwise it inserts its one import line immediately after the
\* last unindented import/from line.
C14_ImportAfterLastTopLevel ==
    [][ ( /\ last'.op \in EnsureOps
          /\ last'.services[1][2] # "none"
          /\ main_py.exists )
        => LET t == last'.services[1][1]
               k == LastTopLevelImport(main_py.lines)
           IN  IF ImportsPackage(main_py.lines, PackageOf(t))
               THEN main_py' = main_py
               ELSE k >= 1
                    => main_py'.lines
                       = SubSeq(main_py.lines, 1, k) \o <<ImportLineOf(t)>>
                             \o SubSeq(main_py.lines, k + 1, Len(main_py.lines)) ]_vars

\* what lies under app/domains and tests/domains
UnderDomains(path) ==
    IsPrefix(<<"app", "domains">>, path) \/ IsPrefix(<<"tests", "domains">>, path)

DomainEntries(d) ==
    [dirs |-> {dir \in d.dirs : UnderDomains(dir)},
     files |-> {f \in d.files : UnderDomains(f[1][1])}]

\* C15: an add-domain run whose requested name is not a lowercase letter
\* followed by lowercase letters, digits or underscores, at most 50 characters
\* in all, ends at the validation with exit code 1 and creates nothing under
\* app/domains or tests/domains; in a generated project the names 'users' and
\* 'order_items' pass the validation.
C15_InvalidNameRejected ==
    (last.op = "add_domain" /\ pc # "validate")
    => /\ ~is_valid_domain_name(last.deps[1])
          => /\ pc \in {"invalid_project", "invalid_name"}
             /\ ExitCode = 1
             /\ DomainEntries(Disk) = DomainEntries(origin)
       /\ ( /\ last.deps[1] \in {NameUsers, NameOrderItems}
            /\ is_valid_fastkit_project(origin) )
          => pc # "invalid_name"

\* the paths of the files scaffold_domain writes for a domain
DomainFilePaths(domain_name) ==
    {Path(DomainPath(domain_name), DomainFiles[k]) : k \in 1..Len(DomainFiles)}

TestFilePaths(domain_name) ==
    {Path(TestDomainPath(domain_name), TestFiles[k]) : k \in 1..Len(TestFiles)}

EntriesBelow(d, dir) ==
    [dirs |-> {x \in d.dirs : IsPrefix(dir, x)},
     files |-> {f \in d.files : IsPrefix(dir, f[1][1])}]

\* the directories app/domains/<other> and tests/domains/test_<other> of the other
\* domains and what they hold
OtherDomainEntries(d, domain_name) ==
    [dirs |-> {x \in d.dirs :
                   /\ UnderDomains(x) /\ Len(x) >= 3
                   /\ ~IsPrefix(DomainPath(domain_name), x)
                   /\ ~IsPrefix(TestDomainPath(domain_name), x)},
     files |-> {f \in d.files :
                   /\ UnderDomains(f[1][1]) /\ Len(f[1][1]) >= 3
                   /\ ~IsPrefix(DomainPath(domain_name), f[1][1])
                   /\ ~IsPrefix(TestDomainPath(domain_name), f[1][1])}]

\* C17: scaffold_domain(project, name, with_tests, force=False) on a project
\* without the domain leaves exactly the 8 domain files under app/domains/<name>,
\* with tests exactly the 5 test files under tests/domains/test_<name> and
\* without tests no test directory, and changes nothing in the directories of
\* the other domains.
C17_ExactlyTheDomainFiles ==
    [][ ( /\ pc = "scaffold" /\ pc' = "created"
          /\ ~last.deps[3]
          /\ DomainPath(Join(last.services[1])) \notin dirs
          /\ TestDomainPath(Join(last.services[1])) \notin dirs )
        => LET domain_name == Join(last.services[1])
               with_tests == last.deps[2]
               after == [dirs |-> dirs', files |-> files']
               before == [dirs |-> dirs, files |-> files]
           IN  /\ {f[1] : f \in EntriesBelow(after, DomainPath(domain_name)).files}
                  = DomainFilePaths(domain_name)
               /\ Cardinality(EntriesBelow(after, DomainPath(domain_name)).files) = 8
               /\ IF with_tests
                  THEN /\ {f[1] : f \in EntriesBelow(after, TestDomainPath(domain_name)).files}
                          = TestFilePaths(domain_name)
                       /\ Cardinality(EntriesBelow(after,
                                                   TestDomainPath(domain_name)).files) = 5
                  ELSE TestDomainPath(domain_name) \notin dirs'
               /\ OtherDomainEntries(after, domain_name)
                  = OtherDomainEntries(before, domain_name) ]_vars

\* the order_items domain created with its tests next to the users and orders
\* domains of the project
C17_SecondDomainSeen ==
    /\ pc = "created"
    /\ last.services = <<NameOrderItems>>
    /\ last.deps[2] /\ ~last.deps[3]
    /\ DomainPath("users") \in dirs
    /\ DomainPath("order_items") \in dirs
    /\ TestDomainPath("order_items") \in dirs
    /\ Edited(Path(DomainPath("orders"), "models.py")) \in files

\* the calls of the dependency manager for a database provider
DbCalls == SelectSeq(calls, LAMBDA c : c.services[1][1] = "db")

\* the client library whose name counts as a provider's signature
ClientLibrary ==
    [postgresql |-> "psycopg2", mysql |-> "pymysql", mongodb |-> "motor", mssql |-> "pyodbc"]

\* the providers whose connection-string scheme or client library occurs in
\* app/core/config.py
ConfigSignatures(config) ==
    IF ~config.exists THEN {}
    ELSE {provider \in {"postgresql", "mysql", "sqlite", "mongodb", "mssql"} :
              \/ ConfigHasScheme(config, provider)
              \/ /\ provider \in DOMAIN ClientLibrary
                 /\ ConfigMentions(config, ClientLibrary[provider])}

\* the providers a file of app/db names
DbDirSignatures(d) ==
    {provider \in DOMAIN ClientLibrary :
         \E f \in d.files :
             /\ f[1][1] = DbDir
             /\ {provider, ClientLibrary[provider]} \cap DbFileWords(f) # {}}

\* C18: a scaffold_domain call syncs at most one database provider: one whose
\* signature is found in app/core/config.py or, when there is none, in a file
\* of app/db; it syncs sqlite as the default only when neither holds a
\* signature and the domain's models.py mentions sqlalchemy.
C18_OneDatabaseProviderSynced ==
    (pc = "created" /\ last.op = "add_domain")
    => /\ Len(DbCalls) <= 1
       /\ (ConfigSignatures(config_py) # {} \/ DbDirSignatures(Disk) # {})
          => Len(DbCalls) = 1
       /\ \A i \in 1..Len(DbCalls) :
              LET provider == DbCalls[i].services[1][2]
              IN  IF ConfigSignatures(config_py) # {}
                  THEN provider \in ConfigSignatures(config_py)
                  ELSE IF DbDirSignatures(Disk) # {}
                  THEN provider \in DbDirSignatures(Disk)
                  ELSE /\ provider = "sqlite"
                       /\ ModelUsesOrm(Disk, Join(last.services[1]))

\* a domain added to the project whose app/db holds the client files of two
\* providers: one of them was synced
C18_TwoClientsOneSynced ==
    /\ pc = "created"
    /\ last.op = "add_domain"
    /\ DbDirSignatures(Disk) = {"postgresql", "mongodb"}
    /\ ConfigSignatures(config_py) = {}
    /\ DbCalls = <<Call("db", "mongodb")>>

\* the names of the service sub-trees under services/
ServiceSubTrees == {x[2] : x \in {dir \in dirs : Len(dir) = 2 /\ dir[1] = "services"}}

\* the service names interpolated into an orchestration file at the project
\* root: its context without the project name that ends it
InterpolatedNames(file_name) ==
    UNION { {f[2][k] : k \in 1..(Len(f[2]) - 1)} :
                f \in {g \in files : g[1] = Path(<<>>, file_name)} }

\* C19: after scaffold_project_structure for the microservices architecture,
\* with any architecture_config, the service names interpolated into
\* docker-compose.yml and into docker-compose.dev.yml are exactly the names of
\* the service sub-trees created under services/.
C19_ComposeListsTheSubTrees ==
    (pc = "done" /\ last.op = "scaffold_project_structure")
    => \A file_name \in {"docker-compose.yml", "docker-compose.dev.yml"} :
           /\ \E f \in files : f[1] = Path(<<>>, file_name)
           /\ InterpolatedNames(file_name) = ServiceSubTrees

\* C20: an add-service or add-domain run on a directory that is not a generated
\* project, or with a service type and provider that are no valid combination,
\* or with a domain name that is not a lowercase letter followed by lowercase
\* letters, digits or underscores (at most 50 characters), ends with exit code
\* 1 and leaves every file and directory as the run found it.
C20_ValidationErrorLeavesDisk ==
    ( /\ pc \in Ended
      /\ \/ /\ last.op \in {"add_service", "add_domain"}
            /\ ~is_valid_fastkit_project(origin)
         \/ /\ last.op = "add_service"
            /\ ~is_valid_service_combination(last.deps[1], last.deps[2])
         \/ /\ last.op = "add_domain"
            /\ ~is_valid_domain_name(last.deps[1]) )
    => /\ ExitCode = 1
       /\ Disk = origin

\* the project directory after the step
DiskNext ==
    [dirs |-> dirs', files |-> files', config |-> config_py', main |-> main_py',
     pyproject |-> pyproject']

\* an entry of d at or below the path scope is missing from e or has another
\* content in e
Destroyed(d, e, scope) ==
    \/ \E q \in d.dirs : IsPrefix(scope, q) /\ q \notin e.dirs
    \/ \E f \in d.files : IsPrefix(scope, f[1][1]) /\ f \notin e.files
    \/ IsPrefix(scope, ConfigPath) /\ d.config.exists /\ e.config # d.config
    \/ IsPrefix(scope, MainPath) /\ d.main.exists /\ e.main # d.main
    \/ IsPrefix(scope, PyprojectPath) /\ d.pyproject.exists /\ e.pyproject # d.pyproject

\* --force was passed, or the overwrite confirmation was answered with yes
Agreed == last.deps[3] \/ (Len(last.deps) = 4 /\ last.deps[4])

\* the domain the add-domain run is about
RequestedDomain == Join(Strip(Lower(last.deps[1])))

\* C21: a step of create-project that deletes or alters an entry of the target
\* directory is the step that follows the yes to its overwrite confirmation (or
\* a later step of a run that was asked); a step of add-domain that deletes or
\* alters an entry of the existing domain or of its tests, and a step of
\* add-service that deletes or alters an entry of the existing service
\* directory, is taken only with --force or after the yes to the overwrite
\* confirmation.
C21_ConfirmationPrecedesDestruction ==
    [][ /\ (CreateRun /\ Destroyed(Disk, DiskNext, <<>>))
           => \/ pc = "confirm_overwrite" /\ pc' = "choose"
              \/ pc = "scaffold" /\ TargetNonEmpty(origin)
        /\ ( /\ last.op = "add_domain"
             /\ \/ Destroyed(Disk, DiskNext, DomainPath(RequestedDomain))
                \/ Destroyed(Disk, DiskNext, TestDomainPath(RequestedDomain)) )
           => Agreed
        /\ (last.op = "add_service" /\ Destroyed(Disk, DiskNext, <<"app", last.deps[1]>>))
           => Agreed ]_vars

\* an add-service run without --force that replaced files of the existing
\* service directory after the yes
C21_ReplacedAfterYes ==
    /\ pc = "added"
    /\ last.op = "add_service"
    /\ ~last.deps[3]
    /\ Len(last.deps) = 4
    /\ Destroyed(origin, Disk, <<"app", last.deps[1]>>)

\* the block update_<type>_configuration inserts for a provider
SectionOf(service_type, provider, project_name) ==
    IF service_type = "db" THEN generate_database_config_section(provider, project_name)
    ELSE IF service_type = "cache"
    THEN generate_cache_config_section(provider, project_name)
    ELSE generate_auth_config_section(provider, project_name)

\* the sentinel and the field names of a block
SectionHeads(section) == {section[k].head : k \in 1..Len(section)} \ {""}

\* C22: when update_<type>_configuration for a provider has left its block in
\* app/core/config.py, the cleanup of the same service type that follows
\* leaves config.py with neither the block's sentinel comment nor any of its
\* field lines.
C22_SectionFullyRemoved ==
    [][ ( /\ last.op \in UpdateOps
          /\ last'.op = "cleanup_all_service_files"
          /\ last'.services[1][1] = last.services[1][1]
          /\ \A head \in SectionHeads(SectionOf(last.services[1][1], last.services[1][2],
                                                ProjectName(pyproject.lines))) :
                 HasHead(config_py.lines, head) )
        => \A head \in SectionHeads(SectionOf(last.services[1][1], last.services[1][2],
                                              ProjectName(pyproject.lines))) :
               ~HasHead(config_py'.lines, head) ]_vars

\* index of the first line of lines at or after i that satisfies Test, 0 if none
FirstLine(lines, i, Test(_)) ==
    IF \E k \in i..Len(lines) : Test(lines[k])
    THEN CHOOSE k \in i..Len(lines) :
             Test(lines[k]) /\ \A j \in i..(k - 1) : ~Test(lines[j])
    ELSE 0

\* the lines of a manifest outside the region strictly between the first
\* 'dependencies = [' line and its closing ']' line: the lines up to and including
\* the opening line, and the lines from the closing line on
LinesBefore(lines) == SubSeq(lines, 1, FirstLine(lines, 1, IsHeader))

LinesAfter(lines) ==
    LET h == FirstLine(lines, 1, IsHeader)
        c == IF h = 0 THEN 0 ELSE FirstLine(lines, h + 1, IsClose)
    IN  IF c = 0 THEN <<>> ELSE SubSeq(lines, c, Len(lines))

FrameKept(old, new) ==
    /\ new.exists = old.exists
    /\ IF FirstLine(old.lines, 1, IsHeader) = 0
       THEN new.lines = old.lines
       ELSE /\ Len(new.lines) >= Len(LinesBefore(old.lines)) + Len(LinesAfter(old.lines))
            /\ SubSeq(new.lines, 1, Len(LinesBefore(old.lines))) = LinesBefore(old.lines)
            /\ SubSeq(new.lines, Len(new.lines) - Len(LinesAfter(old.lines)) + 1,
                      Len(new.lines)) = LinesAfter(old.lines)

ManifestOps ==
    {"add_dependencies", "remove_dependencies", "cleanup_dependencies_from_pyproject"}

\* C23: add_dependencies, remove_dependencies and
\* cleanup_dependencies_from_pyproject leave every line of pyproject.toml outside
\* the region strictly between the 'dependencies = [' line and its closing ']'
\* line as it was, whatever the layout of the file.
C23_ManifestFrame ==
    [][last'.op \in ManifestOps => FrameKept(pyproject, pyproject')]_vars

\* ensure_<T>_imports_in_main and cleanup_<T>_imports by the service type
EnsureImports(main, service_type, provider) ==
    IF service_type = "db" THEN ensure_database_imports_in_main(main, provider)
    ELSE IF service_type = "cache" THEN ensure_cache_imports_in_main(main, provider)
    ELSE ensure_auth_imports_in_main(main, provider)

CleanupImports(main, service_type) ==
    IF service_type = "db" THEN cleanup_database_imports(main)
    ELSE IF service_type = "cache" THEN cleanup_cache_imports(main)
    ELSE cleanup_auth_imports(main)

\* C24: when ensure_<T>_imports_in_main has inserted its import line, the
\* matching cleanup_<T>_imports gives back the main.py from before the insertion,
\* and an ensure after that cleanup inserts the line again (T among db, cache, auth).
C24_ImportRoundTrip ==
    [][(last'.op \in EnsureOps /\ main_py' # main_py)
         => LET T == last'.services[1][1]
                P == last'.services[1][2]
            IN  /\ CleanupImports(main_py', T) = main_py
                /\ EnsureImports(CleanupImports(main_py', T), T, P) = main_py']_vars

\* the provider -> client file mapping of a service type
ClientTable(service_type) ==
    IF service_type = "db" THEN DbClientFiles
    ELSE IF service_type = "cache" THEN CacheClientFiles
    ELSE AuthProviderFiles

\* the provider-specific files of a service type that are in its directory
ClientFilesIn(d, service_type) ==
    Listing(d, ServiceDir(service_type))
        \cap {ClientTable(service_type)[p] : p \in Providers(service_type)}

\* a step of add_service_to_project for db, cache or auth with a known provider
\* on a project that has its manifest
AddedKnownService ==
    /\ last'.op = "add_service_to_project"
    /\ last'.services[1][1] \in {"db", "cache", "auth"}
    /\ last'.services[1][2] \in Providers(last'.services[1][1])
    /\ pyproject.exists

\* C25: after add_service_to_project(project, T, P), for T among db, cache and
\* auth and a known provider P, app/T holds exactly one provider-specific file,
\* the one of P, whichever provider of T the project had before.
C25_OneClientFile ==
    [][AddedKnownService
         => ClientFilesIn(DiskNext, last'.services[1][1])
            = {ClientTable(last'.services[1][1])[last'.services[1][2]]}]_vars

\* block occurs in lines as consecutive lines
ContainsBlock(lines, block) ==
    \E i \in 1..(Len(lines) - Len(block) + 1) :
        SubSeq(lines, i, i + Len(block) - 1) = block

\* C26: after add_service_to_project(project, T, P), for T among db, cache and
\* auth, the T section of app/core/config.py is the block of provider P, also
\* when the section of another provider of T was there before the call.
C26_SectionIsProviders ==
    [][(AddedKnownService /\ config_py.exists /\ HasHead(config_py.lines, ConfigAnchor))
         => ContainsBlock(config_py'.lines,
                          SectionOf(last'.services[1][1], last'.services[1][2],
                                    ProjectName(pyproject.lines)))]_vars

\* C27: add_service_to_project(project, T, P) inserts no settings section of
\* another service type: a config.py without the cache (database) section is
\* without it after a service of a type other than cache (db) was added.
C27_NoForeignSection ==
    [][(last'.op = "add_service_to_project" /\ pyproject.exists)
         => /\ (last'.services[1][1] # "cache" /\ ~HasHead(config_py.lines, CacheSentinel))
                => ~HasHead(config_py'.lines, CacheSentinel)
            /\ (last'.services[1][1] # "db" /\ ~HasHead(config_py.lines, DbSentinel))
                => ~HasHead(config_py'.lines, DbSentinel)]_vars

\* the files of a disk at the paths scaffold_domain writes for a domain
GeneratedFiles(d, domain_name) ==
    {f \in d.files : f[1] \in DomainFilePaths(domain_name) \cup TestFilePaths(domain_name)}

\* C28: in add-domain, when the domain directory exists and the user answers yes
\* to 'Do you want to overwrite it?', the files of the domain and of its tests
\* end up as they do when --force is passed: every generated file that exists
\* is rewritten from its template.
C28_YesEqualsForce ==
    [][(/\ pc = "scaffold" /\ pc' = "created"
        /\ last.op = "add_domain"
        /\ Len(last.deps) = 4 /\ last.deps[4])
         => GeneratedFiles(DiskNext, Join(last.services[1]))
            \in {GeneratedFiles(o.disk, Join(last.services[1])) :
                     o \in scaffold_domain(Disk, Join(last.services[1]),
                                           last.deps[2], TRUE)}]_vars

\* C29: a create-project run that ends with exit code 1 because a confirmation
\* was declined (the overwrite confirmation or 'Proceed to create the directory
\* structure?') leaves every file and directory of the target directory as it
\* was when the command started.
C29_AbortedRunChangesNothing ==
    (pc = "aborted" /\ ExitCode = 1) => Disk = origin

\* the entry lines of a manifest, in order, whose package is listed under no
\* provider of the category
OtherEntries(lines, category) ==
    SelectSeq(lines, LAMBDA line :
                         /\ line.kind = "entry"
                         /\ PackageName(line.dep) \notin CategoryPackages(category))

\* C30: cleanup_dependencies_from_pyproject(project, T) removes only entries
\* whose package name is listed under a provider of category T in DEPENDENCIES:
\* the entries of every other package (of another category, or with a name that
\* only begins with a listed name) are all there afterwards, in their order.
C30_CleanupRemovesOnlyCategory ==
    [][last'.op = "cleanup_dependencies_from_pyproject"
         => OtherEntries(pyproject'.lines, last'.services[1][1])
            = OtherEntries(pyproject.lines, last'.services[1][1])]_vars


====
